---- MODULE Spec2Model ----
(***************************************************************************)
(* A model of FinanceGPT's analysis engine (src/analyzer.py,               *)
(* SpendingAnalyzer) and of the table the loader hands to it               *)
(* (src/data_loader.py).                                                   *)
(*                                                                         *)
(* Numbers.  Amounts are decimal quantities; the model counts them in      *)
(* mills (thousandths of a currency unit), so that rounding to 2 decimals  *)
(* is a real operation.  A value rounded to 2 decimals is an integer       *)
(* number of cents, a percentage rounded to 1 decimal an integer number    *)
(* of tenths of a percent.  Unrounded quotients are kept exact, as         *)
(* fractions.  Arithmetic is exact (the binary representation error of     *)
(* floating point is not modelled); ties are rounded half to even, as      *)
(* Python's round and numpy's round do.                                    *)
(*                                                                         *)
(* Dates are day ordinals: day 0 is Monday 2024-01-01.                     *)
(***************************************************************************)
EXTENDS Integers, Sequences, FiniteSets, TLC

VARIABLES
    orig,              \* the caller's table, the argument of __init__
    data,              \* self.data
    total_spending,    \* self.total_spending (mills)
    date_range,        \* self.date_range, <<min date, max date>>
    analysis_results,  \* self.analysis_results
    aliased,           \* whether self.data is the caller's table, the same object
    ret,               \* the caller's last step: a call on the engine with what it
                       \* returned or raised, or a mutation of its own table
    writes,            \* history: how often line 41 has assigned analysis_results
    pc,                \* concurrent callers: where each caller is in its call
    local,             \* concurrent callers: the results dictionary each is building
    tret,              \* concurrent callers: each caller's call and its outcome
    frame,             \* the loader: the frame read_csv gave for the user's file
    current_data,      \* the UI's current_data: None or the loaded table
    analyzer,          \* the UI's analyzer: None, or the engine of the fields above
    current_analysis,  \* the UI's current_analysis: None or an analysis result
    ollama_available   \* the agent's ollama_available: the client could be imported

vars ==
    <<orig, data, total_spending, date_range, analysis_results, aliased, ret, writes,
      pc, local, tret, frame, current_data, analyzer, current_analysis,
      ollama_available>>

(***************************************************************************)
(* Bounds of the model.                                                    *)
(***************************************************************************)
MaxRecords == 3        \* longest table Init draws
MaxCalls == 2          \* run_full_analysis calls counted by the history variable

(***************************************************************************)
(* Arithmetic helpers.                                                     *)
(***************************************************************************)
Abs(x) == IF x < 0 THEN -x ELSE x

Min2(a, b) == IF a <= b THEN a ELSE b

Max2(a, b) == IF a >= b THEN a ELSE b

RECURSIVE Gcd(_, _)
Gcd(a, b) == IF b = 0 THEN a ELSE Gcd(b, a % b)

\* round(): the integer nearest to n / d (d > 0), ties to the even neighbour.
RoundHalfEven(n, d) ==
    LET q == n \div d
        r == n - q * d
    IN  IF 2 * r < d THEN q
        ELSE IF 2 * r > d THEN q + 1
        ELSE IF q % 2 = 0 THEN q ELSE q + 1

\* round(x, 2) of x = n / d mills: a number of cents.
Round2(n, d) == RoundHalfEven(n, d * 10)

\* round(x, 1) of x = n / d percent: a number of tenths of a percent.
Round1(n, d) == RoundHalfEven(n * 10, d)

\* An exact quotient, as a reduced fraction with a positive denominator.
Frac(n, d) ==
    LET g == Gcd(Abs(n), Abs(d))
        s == IF d < 0 THEN -1 ELSE 1
    IN  [num |-> s * (n \div g), den |-> s * (d \div g)]

\* A float that may be NaN.
NaN == [nan |-> TRUE]

Num(v) == [nan |-> FALSE, value |-> v]

(***************************************************************************)
(* Sequences.                                                              *)
(***************************************************************************)
RECURSIVE SumSeq(_)
SumSeq(s) == IF s = <<>> THEN 0 ELSE Head(s) + SumSeq(Tail(s))

\* A stable sort: less[i][j] says that element i sorts before element j (a
\* strict weak order); elements neither before the other keep their order.
StableSort(seq, less) ==
    LET s == SubSeq(seq, 1, Len(seq))
        n == Len(s)
        pos(i) == 1 + Cardinality({j \in 1..n :
                        less[j][i] \/ (~less[i][j] /\ j < i)})
    IN  SubSeq([k \in 1..n |-> s[CHOOSE i \in 1..n : pos(i) = k]], 1, n)

SortedInts(s) == StableSort(s, [i \in DOMAIN s |-> [j \in DOMAIN s |-> s[i] < s[j]]])

\* s.head(n)
HeadN(s, n) == SubSeq(s, 1, Min2(n, Len(s)))

\* s.tail(n)
TailN(s, n) == SubSeq(s, Max2(1, Len(s) - n + 1), Len(s))

\* The elements of a set of integers, ascending.
RECURSIVE AscendingSeq(_)
AscendingSeq(S) ==
    IF S = {} THEN <<>>
    ELSE LET m == CHOOSE x \in S : \A y \in S : x <= y
         IN  <<m>> \o AscendingSeq(S \ {m})

(***************************************************************************)
(* The calendar: pandas' accessors of a date column, on day ordinals.      *)
(***************************************************************************)
IsLeap(y) == (y % 4 = 0 /\ y % 100 # 0) \/ y % 400 = 0

DaysInYear(y) == IF IsLeap(y) THEN 366 ELSE 365

MonthLengths(y) ==
    <<31, IF IsLeap(y) THEN 29 ELSE 28, 31, 30, 31, 30, 31, 31, 30, 31, 30, 31>>

RECURSIVE YearFrom(_, _)
YearFrom(y, d) == IF d < DaysInYear(y) THEN y ELSE YearFrom(y + 1, d - DaysInYear(y))

RECURSIVE DayOfYearFrom(_, _)
DayOfYearFrom(y, d) ==
    IF d < DaysInYear(y) THEN d ELSE DayOfYearFrom(y + 1, d - DaysInYear(y))

\* dt.year
YearOf(d) == YearFrom(2024, d)

\* The day of the year, from 0.
DayOfYear(d) == DayOfYearFrom(2024, d)

RECURSIVE MonthFrom(_, _, _)
MonthFrom(y, m, k) ==
    IF k < MonthLengths(y)[m] THEN m ELSE MonthFrom(y, m + 1, k - MonthLengths(y)[m])

RECURSIVE DayOfMonthFrom(_, _, _)
DayOfMonthFrom(y, m, k) ==
    IF k < MonthLengths(y)[m] THEN k + 1
    ELSE DayOfMonthFrom(y, m + 1, k - MonthLengths(y)[m])

\* dt.month
MonthOf(d) == MonthFrom(YearOf(d), 1, DayOfYear(d))

\* dt.day
DayOf(d) == DayOfMonthFrom(YearOf(d), 1, DayOfYear(d))

\* dt.weekday: Monday is 0.
WeekdayNumber(d) == d % 7

weekday_order ==
    <<"Monday", "Tuesday", "Wednesday", "Thursday", "Friday", "Saturday", "Sunday">>

\* dt.day_name()
DayName(d) == weekday_order[WeekdayNumber(d) + 1]

\* dt.isocalendar().week: the week of the Thursday of the date's week.
IsoWeek(d) == (DayOfYear(d - WeekdayNumber(d) + 3) \div 7) + 1

\* strftime('%Y-%m-%d')
Strftime(d) == <<YearOf(d), MonthOf(d), DayOf(d)>>

(***************************************************************************)
(* The table: the rows the loader returns.                                 *)
(***************************************************************************)
\* One cleaned row, with the time features the loader adds.
_add_time_features(date, category, amount) ==
    [date |-> date, category |-> category, amount |-> amount,
     year |-> YearOf(date), month |-> MonthOf(date), day |-> DayOf(date),
     weekday |-> DayName(date), week_number |-> IsoWeek(date),
     is_weekend |-> WeekdayNumber(date) >= 5]

\* Category labels, in the order Python's string comparison gives them.
CategoryLabels == <<"Coffee", "Dining", "Groceries", "Travel">>

CategoryRank(c) == CHOOSE i \in DOMAIN CategoryLabels : CategoryLabels[i] = c

Column(t, f) == [i \in DOMAIN t |-> t[i][f]]

CategoriesOf(t) == {t[i].category : i \in DOMAIN t}

DatesOf(t) == {t[i].date : i \in DOMAIN t}

MinOf(S) == CHOOSE x \in S : \A y \in S : x <= y

MaxOf(S) == CHOOSE x \in S : \A y \in S : x >= y

\* The keys of groupby('category'): the labels present, sorted.
CategoryKeys(t) ==
    LET ranks == AscendingSeq({CategoryRank(c) : c \in CategoriesOf(t)})
    IN  [i \in DOMAIN ranks |-> CategoryLabels[ranks[i]]]

(***************************************************************************)
(* Series statistics, on a sequence of amounts in mills.                   *)
(***************************************************************************)
RECURSIVE SumSquares(_)
SumSquares(s) == IF s = <<>> THEN 0 ELSE Head(s) * Head(s) + SumSquares(Tail(s))

RECURSIVE SqrtUpper(_, _, _)
SqrtUpper(h, n, d) == IF h * h * d > n THEN h ELSE SqrtUpper(2 * h, n, d)

RECURSIVE SqrtBisect(_, _, _, _)
SqrtBisect(lo, hi, n, d) ==
    IF hi - lo <= 1 THEN lo
    ELSE LET mid == (lo + hi) \div 2
         IN  IF mid * mid * d <= n THEN SqrtBisect(mid, hi, n, d)
             ELSE SqrtBisect(lo, mid, n, d)

\* The integer nearest to the square root of n / d (n >= 0, d > 0).
SqrtRound(n, d) ==
    LET f == SqrtBisect(0, SqrtUpper(1, n, d), n, d)
        h == (2 * f + 1) * (2 * f + 1) * d
    IN  IF h > 4 * n THEN f
        ELSE IF h < 4 * n THEN f + 1
        ELSE IF f % 2 = 0 THEN f ELSE f + 1

\* n times the sum of squared deviations from the mean.
Deviation(s) == Len(s) * SumSquares(s) - SumSeq(s) * SumSeq(s)

\* Series.mean(), rounded to 2 decimals.
MeanRound2(s) == Round2(SumSeq(s), Len(s))

\* The sum of a series in the place of its mean.
Mean_undivided(s) == IF s = <<>> THEN NaN ELSE Num(Frac(SumSeq(s), 1))

\* Series.mean(): NaN on an empty series.
Mean(s) == IF s = <<>> THEN NaN ELSE Num(Frac(SumSeq(s), Len(s)))

\* Series.median(), rounded to 2 decimals.
MedianRound2(s) ==
    LET o == SortedInts(s)
        n == Len(s)
    IN  IF n % 2 = 1 THEN Round2(o[(n + 1) \div 2], 1)
        ELSE Round2(o[n \div 2] + o[n \div 2 + 1], 2)

\* std() giving 0 instead of NaN on fewer than two values (ddof = 0).
StdRound2_zero_for_singleton(s) ==
    IF Len(s) < 2 THEN Num(0)
    ELSE Num(SqrtRound(Deviation(s), Len(s) * (Len(s) - 1) * 100))

\* Series.std() (sample standard deviation, ddof = 1), rounded to 2 decimals:
\* NaN on fewer than two values.
StdRound2(s) ==
    IF Len(s) < 2 THEN NaN
    ELSE Num(SqrtRound(Deviation(s), Len(s) * (Len(s) - 1) * 100))

\* Series.std() unrounded: the square root of the variance, kept as the
\* exact variance (mills squared) it is the root of.
Std(s) ==
    IF Len(s) < 2 THEN NaN
    ELSE [nan |-> FALSE, sqrt_of |-> Frac(Deviation(s), Len(s) * (Len(s) - 1))]

(***************************************************************************)
(* SpendingAnalyzer.  self is the record of the instance's attributes; a   *)
(* method is an operator from self (and its arguments) to its result.      *)
(***************************************************************************)
EmptyDict == [k \in {} |-> k]

Amounts(t) == Column(t, "amount")

\* Line 23 without the copy: self.data = data, the caller's object.
data_alias(table) == [rows |-> table, same_object |-> TRUE]

\* Line 23: data.copy(), a new object holding the argument's rows.
data_copy(table) == [rows |-> table, same_object |-> FALSE]

\* pandas' NaT: the minimum and the maximum of an empty date column.
NaT == [nat |-> TRUE]

__init__(table) ==
    [data |-> data_copy(table).rows,
     total_spending |-> SumSeq(Amounts(table)),
     date_range |-> IF table = <<>> THEN <<NaT, NaT>>
                    ELSE <<MinOf(DatesOf(table)), MaxOf(DatesOf(table))>>,
     analysis_results |-> EmptyDict]

\* days_span taken to be the number of records.
days_span_of_records(self) == Len(self.data)

days_span(self) == (self.date_range[2] - self.date_range[1]) + 1

_get_overview(self) ==
    [total_spending |-> Round2(self.total_spending, 1),
     num_transactions |-> Len(self.data),
     date_range |-> [start |-> Strftime(self.date_range[1]),
                     end |-> Strftime(self.date_range[2]),
                     days |-> days_span(self)],
     avg_daily_spending |-> Round2(self.total_spending, days_span(self)),
     avg_transaction_amount |-> MeanRound2(Amounts(self.data)),
     median_transaction_amount |-> MedianRound2(Amounts(self.data)),
     spending_std |-> StdRound2(Amounts(self.data))]

\* The amounts of one category's rows.
CategoryAmounts(t, c) == Amounts(SelectSeq(t, LAMBDA r : r.category = c))

\* Lines 71-73 with the sums cut to 2 decimals instead of rounded.
category_stats_truncated(self) ==
    LET keys == CategoryKeys(self.data)
    IN  [i \in DOMAIN keys |->
            LET xs == CategoryAmounts(self.data, keys[i])
            IN  [category |-> keys[i],
                 total |-> SumSeq(xs) \div 10,
                 avg_per_transaction |-> MeanRound2(xs),
                 frequency |-> Len(xs),
                 std |-> StdRound2(xs)]]

\* groupby('category').agg(sum, mean, count, std).round(2): one row per key.
category_stats(self) ==
    LET keys == CategoryKeys(self.data)
    IN  [i \in DOMAIN keys |->
            LET xs == CategoryAmounts(self.data, keys[i])
            IN  [category |-> keys[i],
                 total |-> Round2(SumSeq(xs), 1),
                 avg_per_transaction |-> MeanRound2(xs),
                 frequency |-> Len(xs),
                 std |-> StdRound2(xs)]]

\* The percentage column: the rounded total over total_spending, 1 decimal.
Percentage(total, spending) == Round1(total * 10 * 100, spending)

_analyze_by_category(self) ==
    LET stats == category_stats(self)
        sorted == StableSort(stats, [i \in DOMAIN stats |-> [j \in DOMAIN stats |->
                                        stats[i].total > stats[j].total]])
        summary == [i \in DOMAIN sorted |->
                       [category |-> sorted[i].category,
                        total |-> sorted[i].total,
                        avg_per_transaction |-> sorted[i].avg_per_transaction,
                        frequency |-> sorted[i].frequency,
                        std |-> sorted[i].std,
                        percentage |-> Percentage(sorted[i].total, self.total_spending)]]
    IN  [summary |-> summary,
         top_categories |-> HeadN(summary, 5),
         category_count |-> Len(summary)]

\* The (year, month) keys of groupby(['year', 'month']), sorted, as year * 12 + month.
MonthKey(r) == r.year * 12 + r.month

MonthKeys(t) == AscendingSeq({MonthKey(t[i]) : i \in DOMAIN t})

MonthAmounts(t, k) == Amounts(SelectSeq(t, LAMBDA r : MonthKey(r) = k))

\* The rows of week w that are of the year of the table's first row only.
WeekAmounts_of_one_year(t, w) ==
    Amounts(SelectSeq(t, LAMBDA r : r.week_number = w /\ r.year = t[1].year))

WeekAmounts(t, w) == Amounts(SelectSeq(t, LAMBDA r : r.week_number = w))

DayAmounts(t, d) == Amounts(SelectSeq(t, LAMBDA r : r.date = d))

_calculate_monthly_trend(monthly_data) ==
    IF Len(monthly_data) < 3 THEN "Insufficient data for trend analysis"
    ELSE LET recent_months == TailN(monthly_data, 3)
         IN  IF recent_months[3].total_spending > recent_months[1].total_spending
             THEN "Increasing"
             ELSE IF recent_months[3].total_spending < recent_months[1].total_spending
             THEN "Decreasing"
             ELSE "Stable"

_analyze_by_time(self) ==
    LET mkeys == MonthKeys(self.data)
        monthly == [i \in DOMAIN mkeys |->
                       LET xs == MonthAmounts(self.data, mkeys[i])
                       IN  [year |-> (mkeys[i] - 1) \div 12,
                            month |-> ((mkeys[i] - 1) % 12) + 1,
                            total_spending |-> Round2(SumSeq(xs), 1),
                            transaction_count |-> Len(xs)]]
        wkeys == AscendingSeq({self.data[i].week_number : i \in DOMAIN self.data})
        weekly == [i \in DOMAIN wkeys |->
                      LET xs == WeekAmounts(self.data, wkeys[i])
                      IN  [week_number |-> wkeys[i],
                           total |-> Round2(SumSeq(xs), 1),
                           avg |-> MeanRound2(xs),
                           count |-> Len(xs)]]
        recent_data == SelectSeq(self.data,
                             LAMBDA r : r.date >= MaxOf(DatesOf(self.data)) - 30)
        dkeys == AscendingSeq(DatesOf(recent_data))
        daily_recent == [i \in DOMAIN dkeys |->
                            [date |-> dkeys[i],
                             amount |-> Round2(SumSeq(DayAmounts(recent_data, dkeys[i])), 1)]]
    IN  [monthly |-> monthly,
         weekly |-> weekly,
         daily_recent |-> daily_recent,
         monthly_trend |-> _calculate_monthly_trend(monthly)]

\* A float that may be infinite: x / 0 of numpy floats.
Inf == [nan |-> FALSE, inf |-> TRUE]

\* The growth taken relative to the current month instead of the previous one.
mom_growth_over_current(current, previous) ==
    IF current = 0
    THEN (IF previous = 0 THEN NaN ELSE Inf)
    ELSE Num(Round1((current - previous) * 100, current))

\* round(((current - previous) / previous) * 100, 1), in tenths of a percent.
mom_growth(current, previous) ==
    IF previous = 0
    THEN (IF current = 0 THEN NaN ELSE Inf)
    ELSE Num(Round1((current - previous) * 100, previous))

\* expanding().mean().iloc[-1] instead: the mean of all the values.
RollingMeanLast_expanding(s, window) == Frac(SumSeq(s), Len(s))

\* rolling(window).mean().iloc[-1]: the mean of the last window values.
RollingMeanLast(s, window) == Frac(SumSeq(TailN(s, window)), window)

_analyze_trends(self) ==
    LET dkeys == AscendingSeq(DatesOf(self.data))
        daily_spending == [i \in DOMAIN dkeys |-> SumSeq(DayAmounts(self.data, dkeys[i]))]
        mkeys == MonthKeys(self.data)
        monthly_totals == [i \in DOMAIN mkeys |-> SumSeq(MonthAmounts(self.data, mkeys[i]))]
        n == Len(monthly_totals)
        keys == (IF Len(daily_spending) > 7 THEN {"7_day_avg"} ELSE {})
                \cup (IF Len(daily_spending) > 30 THEN {"30_day_avg"} ELSE {})
                \cup (IF n > 1 THEN {"mom_growth"} ELSE {})
    IN  [k \in keys |->
            IF k = "7_day_avg" THEN RollingMeanLast(daily_spending, 7)
            ELSE IF k = "30_day_avg" THEN RollingMeanLast(daily_spending, 30)
            ELSE mom_growth(monthly_totals[n], monthly_totals[n - 1])]

WeekdayAmounts(t, w) == Amounts(SelectSeq(t, LAMBDA r : r.weekday = w))

\* _analyze_weekday_patterns without the reindex of line 147: the weekdays
\* groupby found, in the order of their names.
_analyze_weekday_patterns_not_reindexed(self) ==
    LET present == SelectSeq(<<"Friday", "Monday", "Saturday", "Sunday", "Thursday",
                               "Tuesday", "Wednesday">>,
                             LAMBDA w : WeekdayAmounts(self.data, w) # <<>>)
        weekend == Amounts(SelectSeq(self.data, LAMBDA r : r.is_weekend))
        weekday == Amounts(SelectSeq(self.data, LAMBDA r : ~r.is_weekend))
    IN  [by_weekday |-> [i \in DOMAIN present |->
                            LET xs == WeekdayAmounts(self.data, present[i])
                            IN  [weekday |-> present[i],
                                 total |-> Num(Round2(SumSeq(xs), 1)),
                                 avg |-> Num(MeanRound2(xs)),
                                 frequency |-> Num(Len(xs))]],
         weekend_vs_weekday |-> [weekend_avg |-> Mean(weekend),
                                 weekday_avg |-> Mean(weekday),
                                 weekend_total |-> SumSeq(weekend),
                                 weekday_total |-> SumSeq(weekday)]]

_analyze_weekday_patterns(self) ==
    LET by_weekday == [i \in DOMAIN weekday_order |->
                          LET xs == WeekdayAmounts(self.data, weekday_order[i])
                          IN  IF xs = <<>>
                              THEN [weekday |-> weekday_order[i],
                                    total |-> NaN, avg |-> NaN, frequency |-> NaN]
                              ELSE [weekday |-> weekday_order[i],
                                    total |-> Num(Round2(SumSeq(xs), 1)),
                                    avg |-> Num(MeanRound2(xs)),
                                    frequency |-> Num(Len(xs))]]
        weekend == Amounts(SelectSeq(self.data, LAMBDA r : r.is_weekend))
        weekday == Amounts(SelectSeq(self.data, LAMBDA r : ~r.is_weekend))
    IN  [by_weekday |-> by_weekday,
         weekend_vs_weekday |-> [weekend_avg |-> Mean(weekend),
                                 weekday_avg |-> Mean(weekday),
                                 weekend_total |-> SumSeq(weekend),
                                 weekday_total |-> SumSeq(weekday)]]

\* Series.quantile(k / 4), linear interpolation, times 4.
Quantile4(s, k) ==
    LET o == SortedInts(s)
        lo == (k * (Len(s) - 1)) \div 4
        rem == (k * (Len(s) - 1)) % 4
    IN  IF rem = 0 THEN 4 * o[lo + 1]
        ELSE 4 * o[lo + 1] + rem * (o[lo + 2] - o[lo + 1])

\* Q3 + 1.0 * (Q3 - Q1), times 8.
OutlierThreshold8_one_iqr(s) == 4 * Quantile4(s, 3) - 2 * Quantile4(s, 1)

\* Q3 + 1.5 * (Q3 - Q1), times 8.
OutlierThreshold8(s) == 5 * Quantile4(s, 3) - 3 * Quantile4(s, 1)

\* a.std() > b.std(), NaN last.
StdGreater(a, b) ==
    /\ ~a.nan
    /\ \/ b.nan
       \/ a.sqrt_of.num * b.sqrt_of.den > b.sqrt_of.num * a.sqrt_of.den

_detect_outliers(self) ==
    LET outlier_threshold8 == OutlierThreshold8(Amounts(self.data))
        outliers == SelectSeq(self.data, LAMBDA r : 8 * r.amount > outlier_threshold8)
        largest == HeadN(StableSort(outliers,
                                    [i \in DOMAIN outliers |-> [j \in DOMAIN outliers |->
                                        outliers[i].amount > outliers[j].amount]]), 5)
        keys == CategoryKeys(self.data)
        stds == [i \in DOMAIN keys |->
                    [category |-> keys[i],
                     std |-> Std(CategoryAmounts(self.data, keys[i]))]]
        category_variance ==
            StableSort(stds, [i \in DOMAIN stds |-> [j \in DOMAIN stds |->
                                 StdGreater(stds[i].std, stds[j].std)]])
    IN  [high_amount_transactions |->
             [i \in DOMAIN largest |-> [date |-> largest[i].date,
                                        category |-> largest[i].category,
                                        amount |-> largest[i].amount]],
         outlier_threshold |-> Round2(outlier_threshold8, 8),
         num_outliers |-> Len(outliers),
         high_variance_categories |-> HeadN(category_variance, 3)]

\* weekend_avg >= weekday_avg * 1.2
WeekendAtLeast(weekend_avg, weekday_avg) ==
    /\ ~weekend_avg.nan
    /\ ~weekday_avg.nan
    /\ 5 * weekend_avg.value.num * weekday_avg.value.den
          >= 6 * weekday_avg.value.num * weekend_avg.value.den

\* weekend_avg > weekday_avg * 1.2: False when either is NaN.
WeekendExceeds(weekend_avg, weekday_avg) ==
    /\ ~weekend_avg.nan
    /\ ~weekday_avg.nan
    /\ 5 * weekend_avg.value.num * weekday_avg.value.den
          > 6 * weekday_avg.value.num * weekend_avg.value.den

\* round((weekend_avg / weekday_avg - 1) * 100, 1)
WeekendExcess(weekend_avg, weekday_avg) ==
    Round1((weekend_avg.value.num * weekday_avg.value.den
              - weekday_avg.value.num * weekend_avg.value.den) * 100,
           weekday_avg.value.num * weekend_avg.value.den)

\* x >= 10
GrowthAtLeast(g, limit) ==
    /\ ~g.nan
    /\ \/ "inf" \in DOMAIN g
       \/ g.value >= limit * 10

\* x > 10 on a float that may be NaN or infinite (tenths of a percent).
GrowthAbove(g, limit) ==
    /\ ~g.nan
    /\ \/ "inf" \in DOMAIN g
       \/ g.value > limit * 10

GrowthBelow(g, limit) ==
    /\ ~g.nan
    /\ "inf" \notin DOMAIN g
    /\ g.value < limit * 10

\* The insights list from the four analyses it reads (lines 185-211).
insights_of(category_analysis, weekday_analysis, trends, outliers) ==
    LET top_category == category_analysis.top_categories[1]
        weekend_avg == weekday_analysis.weekend_vs_weekday.weekend_avg
        weekday_avg == weekday_analysis.weekend_vs_weekday.weekday_avg
    IN  <<[insight |-> "highest spending category",
           category |-> top_category.category,
           percentage |-> top_category.percentage]>>
        \o (IF WeekendExceeds(weekend_avg, weekday_avg)
            THEN <<[insight |-> "more on weekends",
                    percentage |-> WeekendExcess(weekend_avg, weekday_avg)]>>
            ELSE <<>>)
        \o (IF "mom_growth" \in DOMAIN trends
            THEN (IF GrowthAbove(trends["mom_growth"], 10)
                  THEN <<[insight |-> "spending increased",
                          percentage |-> trends["mom_growth"]]>>
                  ELSE IF GrowthBelow(trends["mom_growth"], -10)
                  THEN <<[insight |-> "spending decreased",
                          percentage |-> Num(Abs(trends["mom_growth"].value))]>>
                  ELSE <<>>)
            ELSE <<>>)
        \o (IF outliers.num_outliers > 0
            THEN <<[insight |-> "unusually large transactions",
                    num_outliers |-> outliers.num_outliers,
                    outlier_threshold |-> outliers.outlier_threshold]>>
            ELSE <<>>)

\* _generate_insights counting every transaction as an outlier.
_generate_insights_counting_all(self) ==
    CHOOSE insights \in
        {insights_of(category_analysis, weekday_analysis, trends, outliers) :
            category_analysis \in {_analyze_by_category(self)},
            weekday_analysis \in {_analyze_weekday_patterns(self)},
            trends \in {_analyze_trends(self)},
            outliers \in {[_detect_outliers(self) EXCEPT !.num_outliers = Len(self.data)]}} :
        TRUE

\* Each analysis is computed once and then read, as the locals of the method are.
_generate_insights(self) ==
    CHOOSE insights \in
        {insights_of(category_analysis, weekday_analysis, trends, outliers) :
            category_analysis \in {_analyze_by_category(self)},
            weekday_analysis \in {_analyze_weekday_patterns(self)},
            trends \in {_analyze_trends(self)},
            outliers \in {_detect_outliers(self)}} : TRUE

\* The keys of the results dictionary, in the order lines 32-38 compute them.
Sections ==
    <<"overview", "category_analysis", "time_analysis", "trend_analysis",
      "weekday_analysis", "outlier_analysis", "insights">>

\* The method lines 32-38 call for a key.
Section(self, key) ==
    CASE key = "overview" -> _get_overview(self)
      [] key = "category_analysis" -> _analyze_by_category(self)
      [] key = "time_analysis" -> _analyze_by_time(self)
      [] key = "trend_analysis" -> _analyze_trends(self)
      [] key = "weekday_analysis" -> _analyze_weekday_patterns(self)
      [] key = "outlier_analysis" -> _detect_outliers(self)
      [] key = "insights" -> _generate_insights(self)

\* The results dictionary run_full_analysis builds (lines 31-39).
FullResults(self) ==
    [overview |-> _get_overview(self),
     category_analysis |-> _analyze_by_category(self),
     time_analysis |-> _analyze_by_time(self),
     trend_analysis |-> _analyze_trends(self),
     weekday_analysis |-> _analyze_weekday_patterns(self),
     outlier_analysis |-> _detect_outliers(self),
     insights |-> _generate_insights(self)]

\* run_full_analysis with line 105 assigning the filtered frame to self.data
\* instead of the local recent_data.
run_full_analysis_keeps_recent(self) ==
    LET results == FullResults(self)
        recent_data == SelectSeq(self.data,
                             LAMBDA r : r.date >= MaxOf(DatesOf(self.data)) - 30)
    IN  [self |-> [self EXCEPT !.data = recent_data, !.analysis_results = results],
         returned |-> results]

\* run_full_analysis with line 54 rounding self.total_spending in place.
run_full_analysis_rounds_total(self) ==
    LET results == FullResults(self)
    IN  [self |-> [self EXCEPT !.total_spending = 10 * Round2(self.total_spending, 1),
                               !.analysis_results = results],
         returned |-> results]

\* run_full_analysis: the instance after the call, and what it returns.
run_full_analysis(self) ==
    LET results == FullResults(self)
    IN  [self |-> [self EXCEPT !.analysis_results = results],
         returned |-> results]

\* Line 294, as it would be without the check: every category passes.
category_in_data_unchecked(self, category) == TRUE

\* Line 294: category in self.data['category'].values
category_in_data(self, category) == category \in CategoriesOf(self.data)

\* Line 298, taking the percentage for the share that is kept.
potential_savings100_kept(category_total, reduction_percentage) ==
    category_total * (100 - reduction_percentage)

\* Line 298: potential_savings = category_total * (reduction_percentage / 100),
\* kept exact as its numerator over 100.
potential_savings100(category_total, reduction_percentage) ==
    category_total * reduction_percentage

\* Lines 302-303 and 310-311, scaling the rounded potential_savings.
savings_estimate_of_rounded(savings100, period, days_in_data) ==
    Round2(Round2(savings100, 100) * 10 * period, days_in_data)

\* Lines 302-303 and 310-311: round(potential_savings * (period / days_in_data), 2)
savings_estimate(savings100, period, days_in_data) ==
    Round2(savings100 * period, 100 * days_in_data)

\* Line 312, subtracting category_total * reduction_percentage, not divided by 100.
new_category_total_undivided(category_total, savings100) ==
    Round2(category_total - savings100, 1)

\* Line 312: round(category_total - potential_savings, 2)
new_category_total(category_total, savings100) ==
    Round2(category_total * 100 - savings100, 100)

\* Line 295: the error raised for a category that is not in the table.
CategoryNotFound(category) == <<"ValueError", "not found in data", category>>

\* Lines 297-313: the result simulate_savings returns once the check has passed.
savings_result(self, category, reduction_percentage) ==
    LET category_total == SumSeq(CategoryAmounts(self.data, category))
        savings100 == potential_savings100(category_total, reduction_percentage)
        days_in_data == days_span(self)
    IN  [category |-> category,
         current_spending |-> Round2(category_total, 1),
         reduction_percentage |-> reduction_percentage,
         potential_savings |-> Round2(savings100, 100),
         monthly_savings_estimate |-> savings_estimate(savings100, 30, days_in_data),
         annual_savings_estimate |-> savings_estimate(savings100, 365, days_in_data),
         new_category_total |-> new_category_total(category_total, savings100)]

\* simulate_savings: the instance after the call, and what it raises or returns.
simulate_savings(self, category, reduction_percentage) ==
    IF ~category_in_data(self, category)
    THEN [self |-> self, raised |-> CategoryNotFound(category)]
    ELSE [self |-> self,
          returned |-> savings_result(self, category, reduction_percentage)]

(***************************************************************************)
(* The inputs the model draws.                                             *)
(***************************************************************************)
\* Mon 2024-01-01 and Sat 2024-02-10
Dates == {0, 40}

\* Amounts in mills: 0.004 and 1.25 currency units.
AmountChoices == {4, 1250}

\* The categories of the rows; the other labels are asked for but absent.
RowCategories == {"Dining", "Groceries"}

AskedCategories == RowCategories \cup {"Travel"}

\* reduction_percentage is not constrained to [0, 100].
ReductionPercentages == {-50, 0, 20, 100, 150}

Rows == {_add_time_features(d, c, a) : d \in Dates, c \in RowCategories, a \in AmountChoices}

\* Rows in date order, then by category and amount.
RowKey(r) == (r.date * 10 + CategoryRank(r.category)) * 10000 + r.amount

\* The tables Init draws: every multiset of at most MaxRecords rows, its rows
\* in date order.
Tables ==
    {t \in UNION {[1..n -> Rows] : n \in 1..MaxRecords} :
        \A i \in DOMAIN t : i = 1 \/ RowKey(t[i - 1]) <= RowKey(t[i])}

(***************************************************************************)
(* SpendingDataLoader.  A frame is what read_csv gives: its columns and    *)
(* its rows of cells, a cell being a text or the missing value NaN.        *)
(***************************************************************************)
Text(s) == [nan |-> FALSE, text |-> s]

required_columns == {"date", "category", "amount"}

\* pd.to_datetime(errors='coerce') on the texts of the model: a day, or NaT.
to_datetime(cell) ==
    IF cell.nan THEN NaT
    ELSE CASE cell.text = "2024-01-01" -> [nat |-> FALSE, day |-> 0]
           [] cell.text = "2024-01-06" -> [nat |-> FALSE, day |-> 5]
           [] OTHER -> NaT

\* pd.to_numeric(errors='coerce') on the texts of the model: mills, or NaN.
to_numeric(cell) ==
    IF cell.nan THEN NaN
    ELSE CASE cell.text = "12.5" -> Num(12500)
           [] cell.text = "0" -> Num(0)
           [] cell.text = "-5" -> Num(-5000)
           [] OTHER -> NaN

\* astype(str): a missing value becomes the text 'nan' with an object column;
\* with a string-dtype column (the default of newer pandas) it stays missing.
astype_str(cell, keeps_missing) ==
    IF cell.nan /\ ~keeps_missing THEN Text("nan") ELSE cell

\* .str.strip().str.title() on the texts of the model.
strip_title(cell) ==
    IF cell.nan THEN cell
    ELSE CASE cell.text = "  dining " -> Text("Dining")
           [] cell.text = "GROCERIES" -> Text("Groceries")
           [] cell.text = "nan" -> Text("Nan")
           [] cell.text = "   " -> Text("")

\* The columns _check_required_columns finds missing.
_check_required_columns(df) == required_columns \ df.columns

_validate_and_clean(df, keeps_missing) ==
    IF _check_required_columns(df) # {}
    THEN [raised |-> "ValueError: Missing required columns"]
    ELSE LET converted ==
                 [i \in DOMAIN df.rows |->
                     [date |-> to_datetime(df.rows[i].date),
                      amount |-> to_numeric(df.rows[i].amount),
                      category |-> strip_title(astype_str(df.rows[i].category,
                                                          keeps_missing))]]
             dropna == SelectSeq(converted,
                           LAMBDA r : ~r.date.nat /\ ~r.amount.nan /\ ~r.category.nan)
             positive == SelectSeq(dropna, LAMBDA r : r.amount.value > 0)
         IN  [returned |->
                 [i \in DOMAIN positive |->
                     _add_time_features(positive[i].date.day, positive[i].category.text,
                                        positive[i].amount.value)]]

\* load_csv: the frame of _try_load_csv cleaned; an exception is raised again.
load_csv(df, keeps_missing) == _validate_and_clean(df, keeps_missing)

(***************************************************************************)
(* The engine as a state machine: one instance, constructed in Init, and   *)
(* the calls made on it.                                                   *)
(***************************************************************************)
Self ==
    [data |-> data, total_spending |-> total_spending,
     date_range |-> date_range, analysis_results |-> analysis_results]

SetSelf(self) ==
    /\ data' = self.data
    /\ total_spending' = self.total_spending
    /\ date_range' = self.date_range
    /\ analysis_results' = self.analysis_results

\* What the caller sees of a call r: the call, and all of its outcome but the
\* instance.
Outcome(call, args, r) ==
    [k \in (DOMAIN r \ {"self"}) \cup {"call", "args"} |->
        IF k = "call" THEN call ELSE IF k = "args" THEN args ELSE r[k]]

\* The callers that share the engine in the concurrent specification.
Threads == {1, 2}

\* No file has been read, and the UI holds no data.
NoFrame == [columns |-> {}, rows |-> <<>>]

None == [none |-> TRUE]

Construct(table) ==
    /\ orig = table
    /\ data = __init__(table).data
    /\ total_spending = __init__(table).total_spending
    /\ date_range = __init__(table).date_range
    /\ analysis_results = __init__(table).analysis_results
    /\ aliased = data_copy(table).same_object
    /\ ret = [call |-> "__init__", args |-> <<>>]
    /\ writes = 0
    /\ pc = [t \in Threads |-> "idle"]
    /\ local = [t \in Threads |-> EmptyDict]
    /\ tret = [t \in Threads |-> [call |-> "none", args |-> <<>>]]
    /\ frame = NoFrame
    /\ current_data = None
    /\ analyzer = None
    /\ current_analysis = None
    /\ ollama_available = FALSE

Init == \E table \in Tables : Construct(table)

RunFullAnalysis ==
    /\ writes < MaxCalls
    /\ \E r \in {run_full_analysis(Self)} :
           /\ SetSelf(r.self)
           /\ ret' = Outcome("run_full_analysis", <<>>, r)
    /\ writes' = writes + 1
    /\ UNCHANGED <<orig, aliased, frame, current_data, analyzer, current_analysis,
                   ollama_available, pc, local, tret>>

SimulateSavings ==
    \E category \in AskedCategories, reduction_percentage \in ReductionPercentages :
        \E r \in {simulate_savings(Self, category, reduction_percentage)} :
            /\ SetSelf(r.self)
            /\ ret' = Outcome("simulate_savings", <<category, reduction_percentage>>, r)
            /\ UNCHANGED <<orig, aliased, frame, current_data, analyzer, current_analysis,
                           ollama_available, writes, pc, local, tret>>

Next == RunFullAnalysis \/ SimulateSavings

Spec == Init /\ [][Next]_vars

(***************************************************************************)
(* The caller mutates the table it built the engine from.                  *)
(***************************************************************************)
\* The row the caller appends.
AppendedRow == _add_time_features(40, "Groceries", 1250)

\* The caller's table after one in-place mutation of it.
Mutations(table) ==
    (IF Len(table) < MaxRecords THEN {Append(table, AppendedRow)} ELSE {})
    \cup (IF Len(table) > 1 THEN {SubSeq(table, 1, Len(table) - 1)} ELSE {})
    \cup {[table EXCEPT ![1].amount = a] : a \in AmountChoices}

\* The caller adds, removes or changes a record of its table, in place: the
\* engine's table changes with it only if it is the same object.
CallerMutates ==
    \E table \in Mutations(orig) :
        /\ table # orig
        /\ orig' = table
        /\ data' = IF aliased THEN table ELSE data
        /\ ret' = [call |-> "caller mutates its table", args |-> <<>>]
        /\ UNCHANGED <<total_spending, date_range, analysis_results, aliased,
                       frame, current_data, analyzer, current_analysis,
                       ollama_available,
                       writes, pc, local, tret>>

CallerTables == {t \in Tables : Len(t) = 2}

InitCaller == \E table \in CallerTables : Construct(table)

NextCaller == RunFullAnalysis \/ SimulateSavings \/ CallerMutates

SpecCaller == InitCaller /\ [][NextCaller]_vars

(***************************************************************************)
(* Several callers share the engine and call it concurrently.  A caller    *)
(* in run_full_analysis computes the seven sections one after the other    *)
(* into its own dictionary, assigns it to self.analysis_results (line 41)  *)
(* and returns it (line 43); a caller in simulate_savings checks the       *)
(* category (line 294), then computes and returns.  Steps of different     *)
(* callers interleave freely.                                              *)
(***************************************************************************)
\* What a concurrent caller asks simulate_savings for.
ConcurrentPercentages == {20}

\* Lines 31-39, building the dictionary in self.analysis_results itself.
analysis_results_while_building_shared(self, results) == results

\* Lines 31-39: self.analysis_results while a caller builds its dictionary
\* results, a local of the call.
analysis_results_while_building(self, results) == self.analysis_results

\* d with key k set to v.
SetItem(d, k, v) == [x \in DOMAIN d \cup {k} |-> IF x = k THEN v ELSE d[x]]

Running == {t \in Threads : pc[t] \in {"build", "store"}}

CallRun(t) ==
    /\ pc[t] = "idle"
    /\ writes + Cardinality(Running) < MaxCalls
    /\ pc' = [pc EXCEPT ![t] = "build"]
    /\ local' = [local EXCEPT ![t] = EmptyDict]
    /\ tret' = [tret EXCEPT ![t] = [call |-> "run_full_analysis", args |-> <<>>]]
    /\ UNCHANGED <<orig, data, total_spending, date_range, analysis_results, aliased,
                   frame, current_data, analyzer, current_analysis,
                   ollama_available,
                   ret, writes>>

BuildSection(t) ==
    /\ pc[t] = "build"
    /\ \E key \in {Sections[Cardinality(DOMAIN local[t]) + 1]} :
       \E results \in {SetItem(local[t], key, Section(Self, key))} :
           /\ local' = [local EXCEPT ![t] = results]
           /\ pc' = [pc EXCEPT ![t] = IF key = Sections[Len(Sections)]
                                      THEN "store" ELSE "build"]
           /\ analysis_results' = analysis_results_while_building(Self, results)
    /\ UNCHANGED <<orig, data, total_spending, date_range, aliased,
                   frame, current_data, analyzer, current_analysis,
                       ollama_available, ret, writes, tret>>

StoreResults(t) ==
    /\ pc[t] = "store"
    /\ analysis_results' = local[t]
    /\ writes' = writes + 1
    /\ pc' = [pc EXCEPT ![t] = "return"]
    /\ UNCHANGED <<orig, data, total_spending, date_range, aliased,
                   frame, current_data, analyzer, current_analysis,
                       ollama_available, ret, local, tret>>

ReturnResults(t) ==
    /\ pc[t] = "return"
    /\ tret' = [tret EXCEPT ![t] = SetItem(tret[t], "returned", local[t])]
    /\ pc' = [pc EXCEPT ![t] = "idle"]
    /\ UNCHANGED <<orig, data, total_spending, date_range, analysis_results, aliased,
                   frame, current_data, analyzer, current_analysis,
                   ollama_available,
                   ret, writes, local>>

CallSimulate(t) ==
    /\ pc[t] = "idle"
    /\ \E category \in AskedCategories, reduction_percentage \in ConcurrentPercentages :
           tret' = [tret EXCEPT ![t] = [call |-> "simulate_savings",
                                       args |-> <<category, reduction_percentage>>]]
    /\ pc' = [pc EXCEPT ![t] = "check"]
    /\ UNCHANGED <<orig, data, total_spending, date_range, analysis_results, aliased,
                   frame, current_data, analyzer, current_analysis,
                   ollama_available,
                   ret, writes, local>>

CheckCategory(t) ==
    /\ pc[t] = "check"
    /\ IF category_in_data(Self, tret[t].args[1])
       THEN /\ pc' = [pc EXCEPT ![t] = "compute"]
            /\ tret' = tret
       ELSE /\ pc' = [pc EXCEPT ![t] = "idle"]
            /\ tret' = [tret EXCEPT ![t] =
                           SetItem(tret[t], "raised", CategoryNotFound(tret[t].args[1]))]
    /\ UNCHANGED <<orig, data, total_spending, date_range, analysis_results, aliased,
                   frame, current_data, analyzer, current_analysis,
                   ollama_available,
                   ret, writes, local>>

ComputeSavings(t) ==
    /\ pc[t] = "compute"
    /\ tret' = [tret EXCEPT ![t] =
                   SetItem(tret[t], "returned",
                           savings_result(Self, tret[t].args[1], tret[t].args[2]))]
    /\ pc' = [pc EXCEPT ![t] = "idle"]
    /\ UNCHANGED <<orig, data, total_spending, date_range, analysis_results, aliased,
                   frame, current_data, analyzer, current_analysis,
                   ollama_available,
                   ret, writes, local>>

ConcurrentTables == {t \in Tables : Len(t) <= 2}

InitConcurrent == \E table \in ConcurrentTables : Construct(table)

NextConcurrent ==
    \E t \in Threads :
        \/ CallRun(t)
        \/ BuildSection(t)
        \/ StoreResults(t)
        \/ ReturnResults(t)
        \/ CallSimulate(t)
        \/ CheckCategory(t)
        \/ ComputeSavings(t)

SpecConcurrent == InitConcurrent /\ [][NextConcurrent]_vars

(***************************************************************************)
(* The analyses on their own: an engine is constructed from a table that   *)
(* exercises the weekday, weekend, month-over-month and outlier rules, and *)
(* run_full_analysis is called on it.                                      *)
(***************************************************************************)
MaxAnalysisRecords == 2

MaxOutliers == 6

\* Mon 2024-01-01, Sat 2024-01-06 and Sun 2024-02-04
AnalysisDates == {0, 5, 34}

\* Amounts in mills whose ratios sit on, inside and outside the 1.2 and the
\* 10 percent limits of the insights.
AnalysisAmounts == {900, 1000, 1100, 1200, 1250}

AnalysisRows ==
    {_add_time_features(d, c, a) :
        d \in AnalysisDates, c \in RowCategories, a \in AnalysisAmounts}

\* Scenario A of the design: Groceries 10 on 2024-01-01, Dining 20 on 2024-01-02.
ScenarioA ==
    <<_add_time_features(0, "Groceries", 10000), _add_time_features(1, "Dining", 20000)>>

\* Two categories whose totals differ by less than a cent.
SubCentTables ==
    {<<_add_time_features(0, "Dining", a), _add_time_features(0, "Groceries", 2007 - a)>> :
        a \in {1003, 1004}}

\* bulk small transactions followed by large ones of distinct amounts.
BulkTable(bulk, large) ==
    [i \in 1..(bulk + large) |->
        IF i <= bulk THEN _add_time_features(0, "Groceries", 100)
        ELSE _add_time_features(5, "Dining", 1000 + 10 * (i - bulk))]

BulkSizes == {3, 18}

AnalysisTables ==
    {t \in UNION {[1..n -> AnalysisRows] : n \in 1..MaxAnalysisRecords} :
        \A i \in DOMAIN t : i = 1 \/ RowKey(t[i - 1]) <= RowKey(t[i])}
    \cup {ScenarioA}
    \cup SubCentTables
    \cup {BulkTable(bulk, large) : bulk \in BulkSizes, large \in 1..MaxOutliers}

InitAnalysis == \E table \in AnalysisTables : Construct(table)

NextAnalysis == RunFullAnalysis

SpecAnalysis == InitAnalysis /\ [][NextAnalysis]_vars

(***************************************************************************)
(* The engine constructed directly: __init__ takes any frame and validates *)
(* nothing, so a caller that bypasses the loader can hand it rows with an  *)
(* amount of zero.  The dates are weekdays of two months.                  *)
(***************************************************************************)
\* Mon 2024-01-01 and Thu 2024-02-01
DirectDates == {0, 31}

DirectAmounts == {0, 1000}

DirectRows ==
    {_add_time_features(d, c, a) :
        d \in DirectDates, c \in RowCategories, a \in DirectAmounts}

\* The frames with something spent in them.
DirectTables ==
    {t \in UNION {[1..n -> DirectRows] : n \in 1..MaxRecords} :
        /\ \A i \in DOMAIN t : i = 1 \/ RowKey(t[i - 1]) <= RowKey(t[i])
        /\ \E i \in DOMAIN t : t[i].amount > 0}

InitDirect == \E table \in DirectTables : Construct(table)

NextDirect == RunFullAnalysis

SpecDirect == InitDirect /\ [][NextDirect]_vars

(***************************************************************************)
(* The analyses over time: an engine constructed from a table whose dates  *)
(* sit on both sides of the recent window, of the month and year           *)
(* boundaries and of the rolling-average thresholds.                       *)
(***************************************************************************)
MaxTimeRecords == 3

\* Mon 2024-01-01, Wed 2024-01-31, Thu 2024-02-01, Fri 2024-03-01 and
\* Wed 2025-01-01 (ISO week 1, as 2024-01-01)
TimeDates == {0, 30, 31, 60, 366}

\* Amounts in mills: 1.00, 1.003, 1.004 and 1.50 currency units.
TimeAmounts == {1000, 1003, 1004, 1500}

TimeRows == {_add_time_features(d, "Dining", a) : d \in TimeDates, a \in TimeAmounts}

\* One transaction a day on `days` days that are `step` days apart.
DailyTable(days, step) ==
    [i \in 1..days |-> _add_time_features(step * (i - 1), "Dining", 100 + i)]

\* The numbers of distinct days around the two rolling windows.
DailySizes == {7, 8, 30, 31}

DailySteps == {1, 2}

TimeTables ==
    {t \in UNION {[1..n -> TimeRows] : n \in 1..MaxTimeRecords} :
        \A i \in DOMAIN t : i = 1 \/ RowKey(t[i - 1]) <= RowKey(t[i])}
    \cup {DailyTable(days, step) : days \in DailySizes, step \in DailySteps}

InitTime == \E table \in TimeTables : Construct(table)

NextTime == RunFullAnalysis

SpecTime == InitTime /\ [][NextTime]_vars

(***************************************************************************)
(* The UI loads the user's CSV file: the loader cleans the frame, and the  *)
(* table it returns becomes current_data and the table of a new engine.    *)
(***************************************************************************)
MaxFrameRows == 2

RawDates == {Text("2024-01-06"), Text("yesterday")}

RawAmounts == {Text("12.5"), Text("abc"), Text("0"), Text("-5")}

RawCategories == {Text("  dining "), Text("   "), NaN}

RawRows ==
    {[date |-> d, amount |-> a, category |-> c] :
        d \in RawDates, a \in RawAmounts, c \in RawCategories}

\* The files: any rows under the three columns, or a file without a category column.
RawFrames ==
    {[columns |-> required_columns, rows |-> rows] :
        rows \in UNION {[1..n -> RawRows] : n \in 0..MaxFrameRows}}
    \cup {[columns |-> {"date", "amount"}, rows |-> <<>>]}

InitLoader ==
    /\ frame \in RawFrames
    /\ current_data = None
    /\ analyzer = None
    /\ current_analysis = None
    /\ ollama_available \in BOOLEAN
    /\ orig = <<>>
    /\ data = <<>>
    /\ total_spending = 0
    /\ date_range = <<NaT, NaT>>
    /\ analysis_results = EmptyDict
    /\ aliased = FALSE
    /\ ret = [call |-> "none", args |-> <<>>]
    /\ writes = 0
    /\ pc = [t \in Threads |-> "idle"]
    /\ local = [t \in Threads |-> EmptyDict]
    /\ tret = [t \in Threads |-> [call |-> "none", args |-> <<>>]]

\* The engine the UI holds in self.analyzer.
Engine == [none |-> FALSE]

\* _show_data_summary: line 232 formats the first and the last date, and
\* strftime of the NaT that an empty date column gives raises ValueError.
_show_data_summary(rows) ==
    IF rows = <<>> THEN [raised |-> "ValueError: NaTType does not support strftime"]
    ELSE [returned |-> None]

\* Lines 150-157 of _load_csv_workflow (and 185-188 of the sample workflow) on
\* the frame read from the file: load, construct the engine, reset the
\* analysis and show the summary; the except clause reports whatever raised.
LoadFrame(df) ==
    \E keeps_missing \in BOOLEAN :
    \E r \in {load_csv(df, keeps_missing)} :
        IF "raised" \in DOMAIN r
        THEN /\ ret' = Outcome("load_csv", <<>>, r) @@ ("reported" :> TRUE)
             /\ UNCHANGED <<orig, data, total_spending, date_range, analysis_results,
                            aliased, current_data, analyzer, current_analysis>>
        ELSE /\ current_data' = [none |-> FALSE, rows |-> r.returned]
             /\ orig' = r.returned
             /\ SetSelf(__init__(r.returned))
             /\ aliased' = data_copy(r.returned).same_object
             /\ analyzer' = Engine
             /\ current_analysis' = None
             /\ ret' = Outcome("load_csv", <<>>, r)
                          @@ ("reported" :> ("raised" \in DOMAIN _show_data_summary(r.returned)))

\* _load_csv_workflow, lines 142-160, on the file the user named.
LoadCsv ==
    /\ LoadFrame(frame)
    /\ UNCHANGED <<writes, pc, local, tret, frame, ollama_available>>

NextLoader == LoadCsv

SpecLoader == InitLoader /\ [][NextLoader]_vars

(***************************************************************************)
(* The agent: FinancialLLMAgent asks the local text-generation service for *)
(* its texts.  A text is modelled by the values it is built from.          *)
(***************************************************************************)
\* What self.client.chat can do: answer, answer without a message, or raise.
ChatOutcomes ==
    {[content |-> "generated text"],
     [malformed |-> "no message in the response"],
     [raised |-> "ConnectionError"]}

\* The agent instance.
Agent == [ollama_available |-> ollama_available]

\* Lines 209-247: the text built from the overview, the insights and the
\* first three of the top categories.
_generate_fallback_insights(results) ==
    LET top_categories == HeadN(results.category_analysis.top_categories, 3)
    IN  [fallback |-> TRUE,
         total_spending |-> results.overview.total_spending,
         num_transactions |-> results.overview.num_transactions,
         avg_daily_spending |-> results.overview.avg_daily_spending,
         insights |-> results.insights,
         top_categories |-> [i \in DOMAIN top_categories |->
                                <<top_categories[i].category, top_categories[i].total,
                                  top_categories[i].percentage>>]]

\* Lines 249-278.
_generate_fallback_savings_advice(savings_simulation) ==
    [fallback |-> TRUE,
     category |-> savings_simulation.category,
     reduction |-> savings_simulation.reduction_percentage,
     monthly_savings |-> savings_simulation.monthly_savings_estimate,
     annual_savings |-> savings_simulation.annual_savings_estimate]

\* generate_financial_insights without the try of lines 54-82: what chat or
\* the reading of its response raises reaches the caller.
generate_financial_insights_unguarded(self, results, chat) ==
    IF ~self.ollama_available
    THEN [returned |-> _generate_fallback_insights(results)]
    ELSE IF "content" \in DOMAIN chat
    THEN [returned |-> [fallback |-> FALSE, content |-> chat.content]]
    ELSE IF "raised" \in DOMAIN chat THEN [raised |-> chat.raised]
    ELSE [raised |-> "KeyError: 'message'"]

\* Lines 48-82: chat is what the service does if it is called.
generate_financial_insights(self, results, chat) ==
    IF ~self.ollama_available
    THEN [returned |-> _generate_fallback_insights(results)]
    ELSE IF "content" \in DOMAIN chat
    THEN [returned |-> [fallback |-> FALSE, content |-> chat.content]]
    ELSE [returned |-> _generate_fallback_insights(results)]

\* Lines 160-207.
generate_savings_advice(self, savings_simulation, chat) ==
    IF ~self.ollama_available
    THEN [returned |-> _generate_fallback_savings_advice(savings_simulation)]
    ELSE IF "content" \in DOMAIN chat
    THEN [returned |-> [fallback |-> FALSE, content |-> chat.content]]
    ELSE [returned |-> _generate_fallback_savings_advice(savings_simulation)]

(***************************************************************************)
(* The interactive UI: FinanceGPTUI.run takes the user's menu choices one  *)
(* after the other; each workflow is one action.  ret is the workflow that *)
(* ran last, with reported telling whether it printed an error.            *)
(***************************************************************************)
\* The rows of the user's files: two valid dates and an invalid one, a valid
\* and a negative amount, two categories.
UIRawRows ==
    {[date |-> d, amount |-> a, category |-> c] :
        d \in {Text("2024-01-01"), Text("2024-01-06"), Text("yesterday")},
        a \in {Text("12.5"), Text("-5")},
        c \in {Text("  dining "), Text("GROCERIES")}}

\* The user's files: a header alone, one row, or no category column.
UIFrames ==
    {[columns |-> required_columns, rows |-> rows] :
        rows \in {<<>>} \cup {<<row>> : row \in UIRawRows}}
    \cup {[columns |-> {"date", "amount"}, rows |-> <<>>]}

\* The files create_sample_data writes, cut down to two records in date
\* order: valid dates, positive amounts, any categories.
SampleFrames ==
    {[columns |-> required_columns,
      rows |-> <<[date |-> Text("2024-01-01"), amount |-> Text("12.5"), category |-> c1],
                 [date |-> Text("2024-01-06"), amount |-> Text("12.5"), category |-> c2]>>] :
        c1, c2 \in {Text("  dining "), Text("GROCERIES")}}

\* The reduction percentages the user enters.
UIReductions == {20, 100}

\* FinanceGPTUI.__init__, lines 33-38: no data, no engine, no analysis.
InitUI ==
    /\ frame = NoFrame
    /\ current_data = None
    /\ analyzer = None
    /\ current_analysis = None
    /\ ollama_available \in BOOLEAN
    /\ orig = <<>>
    /\ data = <<>>
    /\ total_spending = 0
    /\ date_range = <<NaT, NaT>>
    /\ analysis_results = EmptyDict
    /\ aliased = FALSE
    /\ ret = [call |-> "__init__", args |-> <<>>, reported |-> FALSE]
    /\ writes = 0
    /\ pc = [t \in Threads |-> "idle"]
    /\ local = [t \in Threads |-> EmptyDict]
    /\ tret = [t \in Threads |-> [call |-> "none", args |-> <<>>]]

\* What the UI itself holds, and the engine behind self.analyzer, stay as they are.
UIUnchanged ==
    UNCHANGED <<orig, data, total_spending, date_range, analysis_results, aliased,
                current_data, analyzer, current_analysis>>

\* A workflow that returns at its first check: no data has been loaded.
NoData(call) == [call |-> call, args |-> <<>>, reported |-> FALSE, no_data |-> TRUE]

\* Menu choice 1: the file does not exist (lines 138-140), or it is read.
_load_csv_workflow ==
    /\ \/ /\ ret' = [call |-> "load_csv", args |-> <<>>, reported |-> TRUE,
                     raised |-> "File not found"]
          /\ UIUnchanged
          /\ UNCHANGED frame
       \/ \E df \in UIFrames :
              /\ LoadFrame(df)
              /\ frame' = df
    /\ UNCHANGED <<writes, pc, local, tret, ollama_available>>

\* Menu choice 2: the file cannot be written, or it is written and the user
\* declines to load it, or it is loaded (lines 184-188).
_create_sample_data_workflow ==
    /\ \/ /\ ret' = [call |-> "create_sample_data", args |-> <<>>, reported |-> TRUE,
                     raised |-> "OSError"]
          /\ UIUnchanged
          /\ UNCHANGED frame
       \/ /\ ret' = [call |-> "create_sample_data", args |-> <<>>, reported |-> FALSE]
          /\ UIUnchanged
          /\ UNCHANGED frame
       \/ \E df \in SampleFrames :
              /\ LoadFrame(df)
              /\ frame' = df
    /\ UNCHANGED <<writes, pc, local, tret, ollama_available>>

\* Menu choice 3, lines 193-223.  run_full_analysis on an empty table raises
\* at line 57 (strftime of NaT) before line 209 assigns.
_analyze_data_workflow ==
    /\ IF current_data = None
       THEN /\ ret' = NoData("_analyze_data_workflow")
            /\ UIUnchanged
       ELSE IF analyzer = None
       THEN /\ ret' = [call |-> "_analyze_data_workflow", args |-> <<>>,
                       reported |-> TRUE, raised |-> "AttributeError"]
            /\ UIUnchanged
       ELSE IF data = <<>>
       THEN /\ ret' = [call |-> "_analyze_data_workflow", args |-> <<>>,
                       reported |-> TRUE,
                       raised |-> "ValueError: NaTType does not support strftime"]
            /\ UIUnchanged
       ELSE \E chat \in ChatOutcomes :
            \E r \in {run_full_analysis(Self)} :
            \E ai_insights \in {generate_financial_insights(Agent, r.returned, chat)} :
                /\ SetSelf(r.self)
                /\ current_analysis' = [none |-> FALSE, results |-> r.returned]
                /\ ret' = [call |-> "_analyze_data_workflow", args |-> <<>>,
                           reported |-> "raised" \in DOMAIN ai_insights,
                           chat |-> chat, ai_insights |-> ai_insights]
                /\ UNCHANGED <<orig, aliased, current_data, analyzer>>
    /\ UNCHANGED <<frame, writes, pc, local, tret, ollama_available>>

\* Menu choice 4, lines 298-358: create_visualizations reads the engine's
\* table; showing a figure may fail and is then reported.
_show_visualizations_workflow ==
    /\ IF current_data = None
       THEN /\ ret' = NoData("_show_visualizations_workflow")
            /\ UIUnchanged
       ELSE \E reported \in BOOLEAN :
                /\ ret' = [call |-> "_show_visualizations_workflow", args |-> <<>>,
                           reported |-> reported]
                /\ IF analyzer = None
                   THEN /\ analyzer' = Engine
                        /\ orig' = current_data.rows
                        /\ SetSelf(__init__(current_data.rows))
                        /\ aliased' = data_copy(current_data.rows).same_object
                        /\ UNCHANGED <<current_data, current_analysis>>
                   ELSE UIUnchanged
    /\ UNCHANGED <<frame, writes, pc, local, tret, ollama_available>>

\* Menu choice 5, lines 360-426.  The category is one of the table's (the
\* prompt accepts no other, and with an empty table it accepts none and the
\* workflow does not get past it); a reduction that is not a number raises
\* at line 386.
_savings_simulation_workflow ==
    /\ IF current_data = None
       THEN /\ ret' = NoData("_savings_simulation_workflow")
            /\ UIUnchanged
       ELSE /\ current_data.rows # <<>>
            /\ analyzer # None
            /\ \/ /\ ret' = [call |-> "_savings_simulation_workflow", args |-> <<>>,
                             reported |-> TRUE, raised |-> "ValueError: could not convert"]
                  /\ UIUnchanged
               \/ \E category \in CategoriesOf(current_data.rows),
                     reduction \in UIReductions, wanted \in BOOLEAN, chat \in ChatOutcomes :
                  \E r \in {simulate_savings(Self, category, reduction)} :
                      /\ SetSelf(r.self)
                      /\ ret' = [call |-> "_savings_simulation_workflow",
                                 args |-> <<category, reduction>>,
                                 reported |-> "raised" \in DOMAIN r,
                                 simulation |-> r, chat |-> chat,
                                 advice |-> IF wanted /\ "returned" \in DOMAIN r
                                            THEN generate_savings_advice(Agent, r.returned, chat)
                                            ELSE None]
                      /\ UNCHANGED <<orig, aliased, current_data, analyzer, current_analysis>>
    /\ UNCHANGED <<frame, writes, pc, local, tret, ollama_available>>

NextUI ==
    \/ _load_csv_workflow
    \/ _create_sample_data_workflow
    \/ _analyze_data_workflow
    \/ _show_visualizations_workflow
    \/ _savings_simulation_workflow

SpecUI == InitUI /\ [][NextUI]_vars

(***************************************************************************)
(* What the claims are stated with: the table's figures, computed directly *)
(* from the rows, and the reading of a call's outcome.                     *)
(***************************************************************************)
RECURSIVE TotalWhere(_, _)
TotalWhere(t, c) ==
    IF t = <<>> THEN 0
    ELSE (IF Head(t).category = c THEN Head(t).amount ELSE 0) + TotalWhere(Tail(t), c)

RECURSIVE CountWhere(_, _)
CountWhere(t, c) ==
    IF t = <<>> THEN 0
    ELSE (IF Head(t).category = c THEN 1 ELSE 0) + CountWhere(Tail(t), c)

DaysSpanOf(t) == MaxOf(DatesOf(t)) - MinOf(DatesOf(t)) + 1

\* v is n / d rounded to an integer: it is within one half of it.
WithinHalf(v, n, d) == 2 * Abs(v * d - n) <= d

Returned(r) == "returned" \in DOMAIN r

Raised(r) == "raised" \in DOMAIN r

IsSimulate(r) == r.call = "simulate_savings"

IsRun(r) == r.call = "run_full_analysis"

\* The engine's table, total and date range are what they were.
EngineUnchanged ==
    /\ data' = data
    /\ total_spending' = total_spending
    /\ date_range' = date_range

(***************************************************************************)
(* C1: simulate_savings with a category that is not in the table raises    *)
(* the "not found" ValueError, returns no result, and leaves data,         *)
(* total_spending, date_range and analysis_results as they were, for       *)
(* every reduction_percentage and wherever in a call sequence it is made.  *)
(***************************************************************************)
C1_UnknownCategoryRejected ==
    [][(IsSimulate(ret') /\ ret'.args[1] \notin CategoriesOf(data))
          => /\ Raised(ret')
             /\ ~Returned(ret')
             /\ ret'.raised = <<"ValueError", "not found in data", ret'.args[1]>>
             /\ EngineUnchanged
             /\ analysis_results' = analysis_results]_vars

\* A rejected request made after an analysis has run, with a percentage above 100.
C1_Witness ==
    /\ IsSimulate(ret)
    /\ Raised(ret)
    /\ ret.args = <<"Travel", 150>>
    /\ writes = 1
    /\ analysis_results # EmptyDict

(***************************************************************************)
(* C2: for a category of the table and any reduction_percentage (negative  *)
(* and above 100 included, neither rejected nor clamped) simulate_savings  *)
(* returns the category total, total * pct / 100, that times 30 / days,    *)
(* that times 365 / days, and total minus the savings, each the exact      *)
(* value rounded to 2 decimals, with days = max date - min date + 1.       *)
(***************************************************************************)
C2_SavingsArithmetic ==
    (IsSimulate(ret) /\ ret.args[1] \in CategoriesOf(data)) =>
        LET pct == ret.args[2]
            total == TotalWhere(data, ret.args[1])
            days == DaysSpanOf(data)
        IN  /\ Returned(ret)
            /\ ~Raised(ret)
            /\ ret.returned.category = ret.args[1]
            /\ ret.returned.reduction_percentage = pct
            /\ WithinHalf(ret.returned.current_spending, total, 10)
            /\ WithinHalf(ret.returned.potential_savings, total * pct, 1000)
            /\ WithinHalf(ret.returned.monthly_savings_estimate,
                          total * pct * 30, 1000 * days)
            /\ WithinHalf(ret.returned.annual_savings_estimate,
                          total * pct * 365, 1000 * days)
            /\ WithinHalf(ret.returned.new_category_total, total * (100 - pct), 1000)

\* A negative percentage over a table spanning 41 days: negative savings, and a
\* new total above the current one.
C2_Witness ==
    /\ IsSimulate(ret)
    /\ Returned(ret)
    /\ ret.args[2] = -50
    /\ DaysSpanOf(data) = 41
    /\ ret.returned.monthly_savings_estimate < 0
    /\ ret.returned.new_category_total > ret.returned.current_spending

(***************************************************************************)
(* C3: with reduction_percentage = 0, potential_savings and both estimates *)
(* are 0 and new_category_total equals current_spending, the category      *)
(* total.                                                                  *)
(***************************************************************************)
C3_ZeroReduction ==
    (IsSimulate(ret) /\ Returned(ret) /\ ret.args[2] = 0) =>
        /\ ret.returned.potential_savings = 0
        /\ ret.returned.monthly_savings_estimate = 0
        /\ ret.returned.annual_savings_estimate = 0
        /\ ret.returned.new_category_total = ret.returned.current_spending
        /\ WithinHalf(ret.returned.current_spending, TotalWhere(data, ret.args[1]), 10)

C3_Witness ==
    /\ IsSimulate(ret)
    /\ Returned(ret)
    /\ ret.args[2] = 0
    /\ ret.returned.current_spending > 0

(***************************************************************************)
(* C4: with reduction_percentage = 100, new_category_total is 0 and        *)
(* potential_savings equals current_spending.                              *)
(***************************************************************************)
C4_FullReduction ==
    (IsSimulate(ret) /\ Returned(ret) /\ ret.args[2] = 100) =>
        /\ ret.returned.new_category_total = 0
        /\ ret.returned.potential_savings = ret.returned.current_spending

C4_Witness ==
    /\ IsSimulate(ret)
    /\ Returned(ret)
    /\ ret.args[2] = 100
    /\ ret.returned.potential_savings > 0
    /\ DaysSpanOf(data) = 41

(***************************************************************************)
(* C5: every run_full_analysis call on one engine, however interleaved     *)
(* with simulate_savings calls, returns the same Analysis Result (that of  *)
(* the table the engine was built from), and no call changes the engine's  *)
(* table, total_spending or date_range.                                    *)
(***************************************************************************)
C5_RunIdempotentPure ==
    [][/\ EngineUnchanged
       /\ IsRun(ret') => ret'.returned = FullResults(__init__(orig))]_vars

\* A second run_full_analysis has returned, on a table of three rows over two months.
C5_Witness ==
    /\ IsRun(ret)
    /\ writes = 2
    /\ Len(data) = 3
    /\ DaysSpanOf(data) = 41

(***************************************************************************)
(* C6: the engine works on its own copy of the table, with total_spending  *)
(* and date_range computed once at construction: whatever the caller then  *)
(* adds to, removes from or changes in its table, the engine's table,      *)
(* total_spending and date_range stay what they were, and every later      *)
(* run_full_analysis and simulate_savings gives what the engine as         *)
(* constructed gives.                                                      *)
(***************************************************************************)
C6_EngineKeepsItsCopy ==
    /\ data = orig
    /\ [][/\ EngineUnchanged
          /\ total_spending' = SumSeq(Amounts(data))
          /\ date_range' = <<MinOf(DatesOf(data)), MaxOf(DatesOf(data))>>
          /\ IsRun(ret') => ret'.returned = FullResults(__init__(data))
          /\ IsSimulate(ret') =>
                 ret' = Outcome("simulate_savings", ret'.args,
                                simulate_savings(__init__(data),
                                                 ret'.args[1], ret'.args[2]))]_vars

\* An analysis run after the caller has appended a row and changed an amount.
C6_Witness ==
    /\ IsRun(ret)
    /\ Len(orig) > Len(data)
    /\ orig[1].amount # data[1].amount
    /\ ret.returned.overview.num_transactions = Len(data)

(***************************************************************************)
(* C7 as claimed: the snapshot analysis_results is written at most once    *)
(* over any sequence of run_full_analysis calls.                           *)
(***************************************************************************)
C7_WrittenAtMostOnce == writes <= 1

(***************************************************************************)
(* C7 as amended: after construction the engine writes no attribute but    *)
(* analysis_results; every run_full_analysis call assigns it (so it is     *)
(* written once per call), each time the value that call returns, and      *)
(* once it is set its value never changes.                                 *)
(***************************************************************************)
C7_OnlySnapshotWritten ==
    [][/\ EngineUnchanged
       /\ writes' # writes => analysis_results' = ret'.returned
       /\ writes' = writes => analysis_results' = analysis_results
       /\ analysis_results # EmptyDict => analysis_results' = analysis_results]_vars

\* The snapshot has been assigned a second time.
C7_Witness ==
    /\ writes = 2
    /\ analysis_results # EmptyDict
    /\ analysis_results = ret.returned

(***************************************************************************)
(* C8: with several callers in run_full_analysis and simulate_savings at   *)
(* once on one engine, in every interleaving each call returns (or raises) *)
(* exactly what it does when made alone on that engine, and                *)
(* analysis_results, whenever it is not empty, is the result of one        *)
(* complete run_full_analysis, never a partial or mixed dictionary.        *)
(***************************************************************************)
C8_ConcurrentCallsAsAlone ==
    /\ \A t \in Threads :
          /\ (IsRun(tret[t]) /\ Returned(tret[t])) =>
                 tret[t].returned = run_full_analysis(__init__(orig)).returned
          /\ (IsSimulate(tret[t]) /\ pc[t] = "idle") =>
                 tret[t] = Outcome("simulate_savings", tret[t].args,
                                   simulate_savings(__init__(orig),
                                                    tret[t].args[1], tret[t].args[2]))
    /\ analysis_results # EmptyDict => analysis_results = FullResults(__init__(orig))

\* One caller has assigned its snapshot and is about to return while the other
\* is half way through building its own.
C8_Witness ==
    /\ pc[1] = "return"
    /\ pc[2] = "build"
    /\ Cardinality(DOMAIN local[2]) = 3
    /\ analysis_results # EmptyDict

(***************************************************************************)
(* C9: the category totals of category_analysis.summary (each rounded to   *)
(* 2 decimals) sum to total_spending within half a cent per category, and  *)
(* every transaction is counted in exactly one category: each category of  *)
(* the table has one entry, whose frequency is that category's row count,  *)
(* and the frequencies sum to num_transactions.                            *)
(***************************************************************************)
C9_CategoryTotalsSum ==
    IsRun(ret) =>
        LET summary == ret.returned.category_analysis.summary
            totals == [i \in DOMAIN summary |-> summary[i].total]
            frequencies == [i \in DOMAIN summary |-> summary[i].frequency]
        IN  /\ total_spending = SumSeq(Amounts(data))
            /\ Abs(10 * SumSeq(totals) - total_spending) <= 5 * Len(summary)
            /\ {summary[i].category : i \in DOMAIN summary} = CategoriesOf(data)
            /\ Len(summary) = Cardinality(CategoriesOf(data))
            /\ \A i \in DOMAIN summary :
                   summary[i].frequency = CountWhere(data, summary[i].category)
            /\ SumSeq(frequencies) = ret.returned.overview.num_transactions
            /\ SumSeq(frequencies) = Len(data)

\* Two categories whose rounded totals do not add up to the total exactly.
C9_Witness ==
    /\ IsRun(ret)
    /\ Len(ret.returned.category_analysis.summary) = 2
    /\ Len(data) = 3
    /\ 10 * (ret.returned.category_analysis.summary[1].total
               + ret.returned.category_analysis.summary[2].total) # total_spending

(***************************************************************************)
(* C10: the percentages of category_analysis.summary sum to 100.0 within   *)
(* 0.1 per category.                                                       *)
(***************************************************************************)
C10_PercentagesSumTo100 ==
    IsRun(ret) =>
        LET summary == ret.returned.category_analysis.summary
            percentages == [i \in DOMAIN summary |-> summary[i].percentage]
        IN  Abs(SumSeq(percentages) - 1000) <= Len(summary)

(***************************************************************************)
(* C11: by_weekday has exactly seven entries, keyed Monday to Sunday in    *)
(* that order, whichever weekdays the table has; a weekday without         *)
(* transactions is there with undefined (NaN) values, a weekday with       *)
(* transactions with their count.                                          *)
(***************************************************************************)
C11_SevenWeekdays ==
    IsRun(ret) =>
        LET by_weekday == ret.returned.weekday_analysis.by_weekday
        IN  /\ Len(by_weekday) = 7
            /\ [i \in 1..7 |-> by_weekday[i].weekday]
                  = <<"Monday", "Tuesday", "Wednesday", "Thursday", "Friday",
                      "Saturday", "Sunday">>
            /\ \A i \in 1..7 :
                   LET n == Cardinality({k \in DOMAIN data : data[k].date % 7 = i - 1})
                   IN  IF n = 0
                       THEN /\ by_weekday[i].total = NaN
                            /\ by_weekday[i].avg = NaN
                            /\ by_weekday[i].frequency = NaN
                       ELSE by_weekday[i].frequency = Num(n)

\* An analysis of a table with Saturday and Sunday transactions only.
C11_Witness ==
    /\ IsRun(ret)
    /\ DatesOf(data) = {5, 34}
    /\ ret.returned.weekday_analysis.by_weekday[1].frequency = NaN
    /\ ret.returned.weekday_analysis.by_weekday[7].frequency = Num(1)

(***************************************************************************)
(* C12: the overview reports the sum of all amounts (to 2 decimals), the   *)
(* record count, days = (max date - min date) + 1 >= 1 and                 *)
(* avg_daily_spending = the unrounded total / days to 2 decimals; for      *)
(* Scenario A that is total 30, days 2, avg_daily 15 and the categories    *)
(* Dining 66.7 and Groceries 33.3 percent.                                 *)
(***************************************************************************)
C12_Overview ==
    IsRun(ret) =>
        LET overview == ret.returned.overview
            summary == ret.returned.category_analysis.summary
            total == TotalWhere(data, "Dining") + TotalWhere(data, "Groceries")
            days == DaysSpanOf(data)
        IN  /\ WithinHalf(overview.total_spending, total, 10)
            /\ overview.num_transactions = Len(data)
            /\ overview.date_range.days = days
            /\ days >= 1
            /\ WithinHalf(overview.avg_daily_spending, total, 10 * days)
            /\ data = ScenarioA =>
                   /\ overview.total_spending = 3000
                   /\ overview.date_range.days = 2
                   /\ overview.avg_daily_spending = 1500
                   /\ [i \in DOMAIN summary |-> <<summary[i].category, summary[i].percentage>>]
                         = <<(<<"Dining", 667>>), (<<"Groceries", 333>>)>>

\* Scenario A has been analysed.
C12_Witness ==
    /\ IsRun(ret)
    /\ data = ScenarioA
    /\ ret.returned.overview.avg_daily_spending = 1500

\* The place of an insight in the fixed order of the four triggers.
InsightRank(entry) ==
    CASE entry.insight = "highest spending category" -> 1
      [] entry.insight = "more on weekends" -> 2
      [] entry.insight \in {"spending increased", "spending decreased"} -> 3
      [] entry.insight = "unusually large transactions" -> 4

(***************************************************************************)
(* C13: the insights are never empty; the first names the category with    *)
(* the greatest total spend, with that category's percentage of the same   *)
(* result; and the insights appear, each at most once, in the order top    *)
(* category, weekend spending, month over month, outlier count.            *)
(***************************************************************************)
C13_TopCategoryLeads ==
    IsRun(ret) =>
        LET insights == ret.returned.insights
            summary == ret.returned.category_analysis.summary
        IN  /\ Len(insights) >= 1
            /\ insights[1].insight = "highest spending category"
            /\ \A c \in CategoriesOf(data) :
                   TotalWhere(data, insights[1].category) >= TotalWhere(data, c)
            /\ \E i \in DOMAIN summary :
                   /\ summary[i].category = insights[1].category
                   /\ summary[i].percentage = insights[1].percentage
            /\ \A i, j \in DOMAIN insights :
                   i < j => InsightRank(insights[i]) < InsightRank(insights[j])

\* The insights of the last analysis that come from one trigger.
InsightsOf(kinds) ==
    SelectSeq(ret.returned.insights, LAMBDA entry : entry.insight \in kinds)

\* The sum and the number of the amounts on weekend days, or on the other days.
RECURSIVE WeekendSum(_, _)
WeekendSum(t, weekend) ==
    IF t = <<>> THEN 0
    ELSE (IF (Head(t).date % 7 >= 5) = weekend THEN Head(t).amount ELSE 0)
         + WeekendSum(Tail(t), weekend)

WeekendCount(t, weekend) ==
    Cardinality({k \in DOMAIN t : (t[k].date % 7 >= 5) = weekend})

(***************************************************************************)
(* C14: the weekend insight is emitted exactly when both partitions are    *)
(* non-empty and weekend_avg > 1.2 * weekday_avg (nothing at equality),    *)
(* and then cites (weekend_avg / weekday_avg - 1) * 100 to 1 decimal; with *)
(* an empty partition nothing is emitted and the analysis still returns.   *)
(***************************************************************************)
C14_WeekendInsight ==
    IsRun(ret) =>
        LET emitted == InsightsOf({"more on weekends"})
            we == WeekendSum(data, TRUE)
            ne == WeekendCount(data, TRUE)
            wd == WeekendSum(data, FALSE)
            nd == WeekendCount(data, FALSE)
            due == ne > 0 /\ nd > 0 /\ 5 * we * nd > 6 * wd * ne
        IN  /\ Returned(ret)
            /\ Len(emitted) = (IF due THEN 1 ELSE 0)
            /\ due => WithinHalf(emitted[1].percentage,
                                 1000 * (we * nd - wd * ne), wd * ne)

\* Weekend transactions average 25 percent above the weekday ones.
C14_Witness ==
    /\ IsRun(ret)
    /\ InsightsOf({"more on weekends"}) = <<[insight |-> "more on weekends",
                                            percentage |-> 250]>>
    /\ 4 * WeekendSum(data, TRUE) * WeekendCount(data, FALSE)
          = 5 * WeekendSum(data, FALSE) * WeekendCount(data, TRUE)

(***************************************************************************)
(* C15: with mom_growth among the trend signals, an increase insight       *)
(* citing mom_growth is emitted exactly when mom_growth > 10 and a         *)
(* decrease insight citing abs(mom_growth) exactly when mom_growth < -10,  *)
(* never both; for -10 <= mom_growth <= 10, and without mom_growth,        *)
(* neither is emitted.                                                     *)
(***************************************************************************)
C15_MonthOverMonthInsight ==
    IsRun(ret) =>
        LET trends == ret.returned.trend_analysis
            increase == InsightsOf({"spending increased"})
            decrease == InsightsOf({"spending decreased"})
        IN  IF "mom_growth" \notin DOMAIN trends
            THEN increase = <<>> /\ decrease = <<>>
            ELSE LET growth == trends["mom_growth"].value
                 IN  /\ increase = (IF growth > 100
                                    THEN <<[insight |-> "spending increased",
                                            percentage |-> Num(growth)]>>
                                    ELSE <<>>)
                     /\ decrease = (IF growth < -100
                                    THEN <<[insight |-> "spending decreased",
                                            percentage |-> Num(0 - growth)]>>
                                    ELSE <<>>)
                     /\ increase = <<>> \/ decrease = <<>>

\* Spending fell from 1.20 to 1.00: a decrease of 16.7 percent is reported.
C15_Witness ==
    /\ IsRun(ret)
    /\ "mom_growth" \in DOMAIN ret.returned.trend_analysis
    /\ ret.returned.trend_analysis["mom_growth"] = Num(-167)
    /\ InsightsOf({"spending decreased"}) = <<[insight |-> "spending decreased",
                                              percentage |-> Num(167)]>>

(***************************************************************************)
(* C16: the outlier insight is emitted exactly when num_outliers > 0, and  *)
(* it cites the num_outliers and the outlier_threshold of the              *)
(* outlier_analysis of the same result.                                    *)
(***************************************************************************)
C16_OutlierInsight ==
    IsRun(ret) =>
        LET outlier_analysis == ret.returned.outlier_analysis
        IN  InsightsOf({"unusually large transactions"})
               = (IF outlier_analysis.num_outliers > 0
                  THEN <<[insight |-> "unusually large transactions",
                          num_outliers |-> outlier_analysis.num_outliers,
                          outlier_threshold |-> outlier_analysis.outlier_threshold]>>
                  ELSE <<>>)

\* Six outliers are reported by the insight.
C16_Witness ==
    /\ IsRun(ret)
    /\ Len(InsightsOf({"unusually large transactions"})) = 1
    /\ InsightsOf({"unusually large transactions"})[1].num_outliers = 6

(***************************************************************************)
(* C17: the threshold is Q3 + 1.5 * (Q3 - Q1) over all amounts (to 2       *)
(* decimals in the result); num_outliers counts the transactions with      *)
(* amount strictly above it; high_amount_transactions lists the            *)
(* min(5, num_outliers) largest of them with date, category and amount,    *)
(* in descending order of amount.                                          *)
(***************************************************************************)
C17_OutlierDetection ==
    IsRun(ret) =>
        LET outlier_analysis == ret.returned.outlier_analysis
            high == outlier_analysis.high_amount_transactions
            q1 == Quantile4(Amounts(data), 1)
            q3 == Quantile4(Amounts(data), 3)
            threshold8 == 2 * q3 + 3 * (q3 - q1)
            outliers == {k \in DOMAIN data : 8 * data[k].amount > threshold8}
        IN  /\ WithinHalf(outlier_analysis.outlier_threshold, threshold8, 80)
            /\ outlier_analysis.num_outliers = Cardinality(outliers)
            /\ Len(high) = Min2(5, Cardinality(outliers))
            /\ \A i \in DOMAIN high :
                   /\ DOMAIN high[i] = {"date", "category", "amount"}
                   /\ \E k \in outliers :
                          /\ data[k].date = high[i].date
                          /\ data[k].category = high[i].category
                          /\ data[k].amount = high[i].amount
                   /\ Cardinality({k \in outliers : data[k].amount > high[i].amount}) < i
            /\ \A i, j \in DOMAIN high : i < j => high[i].amount >= high[j].amount

\* Six outliers, of which the five largest are listed.
C17_Witness ==
    /\ IsRun(ret)
    /\ ret.returned.outlier_analysis.num_outliers = 6
    /\ Len(ret.returned.outlier_analysis.high_amount_transactions) = 5
    /\ ret.returned.outlier_analysis.high_amount_transactions[1].amount = 1060

(***************************************************************************)
(* C18: a category with exactly one transaction has the undefined value    *)
(* NaN as its std in category_analysis, never 0; a category with two or    *)
(* more transactions has a number.                                         *)
(***************************************************************************)
C18_SingletonStdUndefined ==
    IsRun(ret) =>
        LET summary == ret.returned.category_analysis.summary
        IN  \A i \in DOMAIN summary :
                IF CountWhere(data, summary[i].category) = 1
                THEN summary[i].std = NaN
                ELSE /\ ~summary[i].std.nan
                     /\ summary[i].std.value >= 0

\* One category with a single transaction next to one with three.
C18_Witness ==
    /\ IsRun(ret)
    /\ CountWhere(data, "Dining") = 1
    /\ CountWhere(data, "Groceries") = 3
    /\ ret.returned.category_analysis.summary[1].std = NaN
    /\ ret.returned.category_analysis.summary[2].std = Num(0)

(***************************************************************************)
(* C19: when the earlier of the two most recent monthly totals is exactly  *)
(* zero, run_full_analysis returns and mom_growth is flagged undefined: it *)
(* is left out or is NaN, never infinity or a number.                      *)
(***************************************************************************)
C19_ZeroPreviousMonthGuarded ==
    (/\ IsRun(ret)
     /\ DatesOf(data) = {0, 31}
     /\ \A k \in DOMAIN data : data[k].date = 0 => data[k].amount = 0)
        => /\ Returned(ret)
           /\ "mom_growth" \in DOMAIN ret.returned.trend_analysis
                  => ret.returned.trend_analysis["mom_growth"] = NaN

\* The rows of the file that are valid: a date that parses, a numeric amount
\* above zero, and a category that is neither missing nor blank.
ValidRaw(row) ==
    /\ row.date = Text("2024-01-06")
    /\ row.amount = Text("12.5")
    /\ row.category = Text("  dining ")

(***************************************************************************)
(* C20: the table _validate_and_clean returns, which the UI hands to the   *)
(* engine, is non-empty, and each of its records has a valid date, an      *)
(* amount above 0 and a non-empty, trimmed, title-cased category: it holds *)
(* the valid rows of the file and no other.                                *)
(***************************************************************************)
C20_LoadedTableValid ==
    (ret.call = "load_csv" /\ Returned(ret)) =>
        /\ current_data = [none |-> FALSE, rows |-> ret.returned]
        /\ data = ret.returned
        /\ ret.returned # <<>>
        /\ \A i \in DOMAIN ret.returned :
               /\ ret.returned[i].date = 5
               /\ ret.returned[i].amount > 0
               /\ ret.returned[i].category = "Dining"
        /\ Len(ret.returned) = Len(SelectSeq(frame.rows, ValidRaw))

\* The sum of the amounts of the rows dated d.
RECURSIVE TotalOn(_, _)
TotalOn(t, d) ==
    IF t = <<>> THEN 0
    ELSE (IF Head(t).date = d THEN Head(t).amount ELSE 0) + TotalOn(Tail(t), d)

(***************************************************************************)
(* C21: daily_recent has exactly the days d of the table with              *)
(* d >= max(date) - 29 days, each with the sum of that day's amounts (to 2 *)
(* decimals); a transaction dated max(date) - 30 days is not in it.        *)
(***************************************************************************)
C21_RecentWindow ==
    IsRun(ret) =>
        LET daily_recent == ret.returned.time_analysis.daily_recent
            last == MaxOf(DatesOf(data))
        IN  /\ {daily_recent[i].date : i \in DOMAIN daily_recent}
                  = {d \in DatesOf(data) : d >= last - 29}
            /\ \A i \in DOMAIN daily_recent :
                   WithinHalf(daily_recent[i].amount, TotalOn(data, daily_recent[i].date), 10)
            /\ \A i \in DOMAIN daily_recent : daily_recent[i].date # last - 30

\* The (year, month) buckets of a table, oldest first, as year * 12 + month.
MonthsOf(t) == AscendingSeq({t[i].year * 12 + t[i].month : i \in DOMAIN t})

\* The sum of the amounts of the rows of one (year, month) bucket.
RECURSIVE TotalInMonth(_, _)
TotalInMonth(t, k) ==
    IF t = <<>> THEN 0
    ELSE (IF Head(t).year * 12 + Head(t).month = k THEN Head(t).amount ELSE 0)
         + TotalInMonth(Tail(t), k)

\* The trend of the unrounded totals of the last three months of a table.
TrendOf(t) ==
    LET months == MonthsOf(t)
        n == Len(months)
    IN  IF n < 3 THEN "Insufficient data for trend analysis"
        ELSE IF TotalInMonth(t, months[n]) > TotalInMonth(t, months[n - 2])
        THEN "Increasing"
        ELSE IF TotalInMonth(t, months[n]) < TotalInMonth(t, months[n - 2])
        THEN "Decreasing"
        ELSE "Stable"

(***************************************************************************)
(* C22: rounding never feeds back into a computation: every category       *)
(* percentage is the unrounded category sum over total_spending, times     *)
(* 100, to 1 decimal; the categories are ordered by their unrounded sums;  *)
(* and monthly_trend is the comparison of the unrounded monthly totals.    *)
(***************************************************************************)
C22_RoundingAtBoundaryOnly ==
    IsRun(ret) =>
        LET summary == ret.returned.category_analysis.summary
        IN  /\ \A i \in DOMAIN summary :
                   summary[i].percentage
                      = Round1(TotalWhere(data, summary[i].category) * 100, total_spending)
            /\ \A i, j \in DOMAIN summary :
                   i < j => TotalWhere(data, summary[i].category)
                               >= TotalWhere(data, summary[j].category)
            /\ ret.returned.time_analysis.monthly_trend = TrendOf(data)

\* The first row of a table that carries the label c.
FirstAppearance(t, c) == MinOf({i \in DOMAIN t : t[i].category = c})

(***************************************************************************)
(* C23: summary lists the categories by descending total; categories of    *)
(* equal total spend are in the order in which their labels first appear   *)
(* in the table; top_categories is the first min(5, category_count)        *)
(* entries of summary, in the same order.                                  *)
(***************************************************************************)
C23_CategoryOrder ==
    IsRun(ret) =>
        LET category_analysis == ret.returned.category_analysis
            summary == category_analysis.summary
        IN  /\ \A i, j \in DOMAIN summary :
                   i < j =>
                       /\ summary[i].total >= summary[j].total
                       /\ TotalWhere(data, summary[i].category)
                             = TotalWhere(data, summary[j].category)
                          => FirstAppearance(data, summary[i].category)
                                < FirstAppearance(data, summary[j].category)
            /\ category_analysis.top_categories
                  = SubSeq(summary, 1, Min2(5, category_analysis.category_count))

(***************************************************************************)
(* C24: monthly_trend is 'Insufficient data for trend analysis' exactly    *)
(* when the table has fewer than 3 (year, month) buckets; otherwise, of    *)
(* the totals of the last three months, it is Increasing when the last is  *)
(* greater than the first, Decreasing when it is less and Stable only when *)
(* the two are equal, whatever the middle month's total.                   *)
(***************************************************************************)
C24_MonthlyTrend ==
    IsRun(ret) =>
        LET monthly_trend == ret.returned.time_analysis.monthly_trend
            months == MonthsOf(data)
            n == Len(months)
        IN  /\ monthly_trend = "Insufficient data for trend analysis" <=> n < 3
            /\ n >= 3 =>
                   LET first == TotalInMonth(data, months[n - 2])
                       last == TotalInMonth(data, months[n])
                   IN  /\ monthly_trend = "Increasing" <=> last > first
                       /\ monthly_trend = "Decreasing" <=> last < first
                       /\ monthly_trend = "Stable" <=> last = first

\* The k most recent of the days on which a table has transactions.
RecentDays(t, k) == {d \in DatesOf(t) : Cardinality({e \in DatesOf(t) : e > d}) < k}

\* The sum of the amounts of the rows dated in a set of days.
RECURSIVE TotalOnDays(_, _)
TotalOnDays(t, days) ==
    IF t = <<>> THEN 0
    ELSE (IF Head(t).date \in days THEN Head(t).amount ELSE 0) + TotalOnDays(Tail(t), days)

(***************************************************************************)
(* C25: trend_analysis has 7_day_avg exactly when the table has at least 8 *)
(* distinct transaction days and 30_day_avg exactly when it has at least   *)
(* 31; the value is the mean of the daily totals of the 7 (30) most recent *)
(* days that have transactions, days without any being skipped and not     *)
(* counted as zero; below the threshold the field is absent.               *)
(***************************************************************************)
C25_RollingAverages ==
    IsRun(ret) =>
        LET trends == ret.returned.trend_analysis
            days == Cardinality(DatesOf(data))
        IN  /\ "7_day_avg" \in DOMAIN trends <=> days >= 8
            /\ "30_day_avg" \in DOMAIN trends <=> days >= 31
            /\ days >= 8 =>
                   trends["7_day_avg"] = Frac(TotalOnDays(data, RecentDays(data, 7)), 7)
            /\ days >= 31 =>
                   trends["30_day_avg"] = Frac(TotalOnDays(data, RecentDays(data, 30)), 30)

\* An analysis of 31 transaction days that are two days apart: both averages
\* are there, over days that are not consecutive.
C25_Witness ==
    /\ IsRun(ret)
    /\ Cardinality(DatesOf(data)) = 31
    /\ date_range = <<0, 60>>
    /\ ret.returned.trend_analysis["7_day_avg"] = Frac(128 * 7, 7)
    /\ ret.returned.trend_analysis["30_day_avg"] = Frac(233, 2)

(***************************************************************************)
(* C26: trend_analysis has mom_growth exactly when the table has at least  *)
(* 2 (year, month) buckets; it is (current - previous) / previous * 100 to *)
(* 1 decimal, of the unrounded totals of the last and of the               *)
(* second-to-last month; monthly totals of 100 and then 150 give 50.0.     *)
(***************************************************************************)
C26_MonthOverMonthGrowth ==
    IsRun(ret) =>
        LET trends == ret.returned.trend_analysis
            months == MonthsOf(data)
            n == Len(months)
        IN  /\ "mom_growth" \in DOMAIN trends <=> n >= 2
            /\ n >= 2 =>
                   LET current == TotalInMonth(data, months[n])
                       previous == TotalInMonth(data, months[n - 1])
                   IN  /\ DOMAIN trends["mom_growth"] = {"nan", "value"}
                       /\ WithinHalf(trends["mom_growth"].value,
                                     (current - previous) * 1000, previous)
                       /\ 2 * current = 3 * previous => trends["mom_growth"] = Num(500)
            /\ mom_growth(150000, 100000) = Num(500)

\* An analysis of three months whose last two total 1.00 and 1.50.
C26_Witness ==
    /\ IsRun(ret)
    /\ Len(MonthsOf(data)) = 3
    /\ TotalInMonth(data, MonthsOf(data)[2]) = 1000
    /\ TotalInMonth(data, MonthsOf(data)[3]) = 1500
    /\ ret.returned.trend_analysis["mom_growth"] = Num(500)

\* The rows of a table that carry the ISO week number w.
RowsOfWeek(t, w) == {i \in DOMAIN t : t[i].week_number = w}

\* The sum of the amounts of the rows that carry the ISO week number w.
RECURSIVE TotalInWeek(_, _)
TotalInWeek(t, w) ==
    IF t = <<>> THEN 0
    ELSE (IF Head(t).week_number = w THEN Head(t).amount ELSE 0) + TotalInWeek(Tail(t), w)

(***************************************************************************)
(* C27: weekly has one bucket for each ISO week number that occurs in the  *)
(* table, with the sum, the mean (both to 2 decimals) and the count of all *)
(* the transactions of that week number, those of other years included;    *)
(* the counts of the buckets sum to num_transactions.                      *)
(***************************************************************************)
C27_WeeklyBuckets ==
    IsRun(ret) =>
        LET weekly == ret.returned.time_analysis.weekly
        IN  /\ {weekly[i].week_number : i \in DOMAIN weekly}
                  = {data[k].week_number : k \in DOMAIN data}
            /\ \A i, j \in DOMAIN weekly :
                   i # j => weekly[i].week_number # weekly[j].week_number
            /\ \A i \in DOMAIN weekly :
                   LET rows == RowsOfWeek(data, weekly[i].week_number)
                       sum == TotalInWeek(data, weekly[i].week_number)
                   IN  /\ weekly[i].count = Cardinality(rows)
                       /\ WithinHalf(weekly[i].total, sum, 10)
                       /\ WithinHalf(weekly[i].avg, sum, 10 * Cardinality(rows))
            /\ SumSeq([i \in DOMAIN weekly |-> weekly[i].count])
                  = ret.returned.overview.num_transactions

\* An analysis of a table with 2024-01-01 and 2025-01-01, both of ISO week 1:
\* the bucket of week 1 counts the transactions of both years.
C27_Witness ==
    /\ IsRun(ret)
    /\ {data[k].year : k \in DOMAIN data} = {2024, 2025}
    /\ \E i \in DOMAIN ret.returned.time_analysis.weekly :
           /\ ret.returned.time_analysis.weekly[i].week_number = 1
           /\ ret.returned.time_analysis.weekly[i].count = Len(data)
           /\ Len(data) = 3

(***************************************************************************)
(* C28: weekend_vs_weekday splits the transactions by is_weekend: the two  *)
(* totals add up to total_spending, each average is its part's total over  *)
(* its count, and an empty part has total 0 and an undefined (NaN) average, *)
(* not 0, while the analysis still returns.                                *)
(***************************************************************************)
C28_WeekendWeekdaySplit ==
    IsRun(ret) =>
        /\ Returned(ret)
        /\ LET split == ret.returned.weekday_analysis.weekend_vs_weekday
               ne == WeekendCount(data, TRUE)
               nd == WeekendCount(data, FALSE)
           IN  /\ split.weekend_total + split.weekday_total = total_spending
               /\ split.weekend_total = WeekendSum(data, TRUE)
               /\ split.weekday_total = WeekendSum(data, FALSE)
               /\ ne + nd = Len(data)
               /\ ne > 0 => split.weekend_avg = Num(Frac(split.weekend_total, ne))
               /\ nd > 0 => split.weekday_avg = Num(Frac(split.weekday_total, nd))
               /\ ne = 0 => split.weekend_total = 0 /\ split.weekend_avg = NaN
               /\ nd = 0 => split.weekday_total = 0 /\ split.weekday_avg = NaN
               /\ split.weekend_avg # Num(Frac(0, 1))
               /\ split.weekday_avg # Num(Frac(0, 1))

\* An analysis of two weekend transactions and none on a weekday.
C28_Witness ==
    /\ IsRun(ret)
    /\ Returned(ret)
    /\ WeekendCount(data, TRUE) = 2
    /\ WeekendCount(data, FALSE) = 0
    /\ ret.returned.weekday_analysis.weekend_vs_weekday.weekday_avg = NaN
    /\ ret.returned.weekday_analysis.weekend_vs_weekday.weekday_total = 0

\* The UI's engine and analysis belong to its current_data.
UIConsistent ==
    current_data # None =>
        /\ analyzer = Engine
        /\ data = current_data.rows
        /\ total_spending = SumSeq(Amounts(current_data.rows))
        /\ date_range = IF current_data.rows = <<>> THEN <<NaT, NaT>>
                        ELSE <<MinOf(DatesOf(current_data.rows)),
                               MaxOf(DatesOf(current_data.rows))>>
        /\ current_analysis # None =>
               /\ current_data.rows # <<>>
               /\ current_analysis.results = FullResults(__init__(current_data.rows))

\* A step leaves current_data, the analyzer and current_analysis as they were.
UIKept ==
    /\ current_data' = current_data
    /\ analyzer' = analyzer
    /\ EngineUnchanged
    /\ current_analysis' = current_analysis

(***************************************************************************)
(* C29: after every menu action, with current_data set the analyzer is the *)
(* engine built from that current_data and current_analysis is None or the *)
(* result computed from it; a load that succeeds resets current_analysis   *)
(* to None, a load that fails (the workflow reports an error) changes none *)
(* of the three, and analyze, visualize and savings without data loaded    *)
(* change nothing.                                                         *)
(***************************************************************************)
C29_UIStateConsistent ==
    [][/\ UIConsistent'
       /\ ret'.call = "load_csv" /\ ~ret'.reported => current_analysis' = None
       /\ ret'.call \in {"load_csv", "create_sample_data"} /\ ret'.reported => UIKept
       /\ ret'.call \in {"_analyze_data_workflow", "_show_visualizations_workflow",
                         "_savings_simulation_workflow"}
          /\ current_data = None => UIKept]_vars

\* The text-generation service could not give a text: the client is not
\* installed, or the chat call raised or answered without a message.
ServiceFailed(chat) == ~ollama_available \/ "content" \notin DOMAIN chat

(***************************************************************************)
(* C30: generate_financial_insights and generate_savings_advice never      *)
(* raise; when the Ollama client is not installed or the chat call raises, *)
(* each returns its fallback text, built from the engine's result it was   *)
(* given and nothing else, and the analysis workflow completes without an  *)
(* error, with current_analysis set to the engine's result.                *)
(***************************************************************************)
C30_ServiceFailureContained ==
    /\ ret.call = "_analyze_data_workflow" /\ "ai_insights" \in DOMAIN ret =>
           /\ "returned" \in DOMAIN ret.ai_insights
           /\ ServiceFailed(ret.chat) =>
                  /\ ~ret.reported
                  /\ current_analysis = [none |-> FALSE, results |-> analysis_results]
                  /\ analysis_results = FullResults(__init__(current_data.rows))
                  /\ LET results == current_analysis.results
                         top == results.category_analysis.top_categories
                     IN  ret.ai_insights.returned
                            = [fallback |-> TRUE,
                               total_spending |-> results.overview.total_spending,
                               num_transactions |-> results.overview.num_transactions,
                               avg_daily_spending |-> results.overview.avg_daily_spending,
                               insights |-> results.insights,
                               top_categories |->
                                   [i \in 1..Min2(3, Len(top)) |->
                                       <<top[i].category, top[i].total, top[i].percentage>>]]
    /\ ret.call = "_savings_simulation_workflow" /\ "advice" \in DOMAIN ret
          /\ ret.advice # None =>
           /\ "returned" \in DOMAIN ret.advice
           /\ ServiceFailed(ret.chat) =>
                  LET simulation == ret.simulation.returned
                  IN  ret.advice.returned
                         = [fallback |-> TRUE,
                            category |-> simulation.category,
                            reduction |-> simulation.reduction_percentage,
                            monthly_savings |-> simulation.monthly_savings_estimate,
                            annual_savings |-> simulation.annual_savings_estimate]

\* The client is installed and the chat call has raised during an analysis
\* of two categories: the fallback text is there and no error was reported.
C30_Witness ==
    /\ ret.call = "_analyze_data_workflow"
    /\ "chat" \in DOMAIN ret
    /\ ollama_available
    /\ "raised" \in DOMAIN ret.chat
    /\ ret.ai_insights.returned.fallback
    /\ Len(ret.ai_insights.returned.top_categories) = 2
    /\ ~ret.reported
    /\ current_analysis # None

====
